---- MODULE Spec2Model ----
(***************************************************************************)
(* A model of parts of fuzzcheck-rs:                                       *)
(*   - CharWithinRangeMutator (fuzzcheck/src/mutators/char.rs) and the     *)
(*     Either mutator wrapping it (fuzzcheck/src/mutators/either.rs),      *)
(*     driven by a harness that synthesizes, mutates, unmutates and keeps  *)
(*     values (specification Spec);                                        *)
(*   - LargeStepFindIter, Slab, WeightedIndex and HBitSet                  *)
(*     (fuzzcheck/src/data_structures.rs), each under a specification of   *)
(*     its own (SpecFind, SpecSlab, SpecWeighted, SpecHBitSet).            *)
(* Every specification ranges over all the variables of the module and     *)
(* leaves the variables of the other components untouched.                 *)
(***************************************************************************)
EXTENDS Integers, Sequences, FiniteSets, TLC

VARIABLES
    \* ---- mutator harness ----
    mutator,    \* the mutator under test: a CharWithinRangeMutator or an Either of one
    value,      \* the char the harness owns (a code point)
    cache,      \* its Cache
    mstep,      \* its MutationStep
    astep,      \* the harness's ArbitraryStep
    pc,         \* "idle" | "mutated" (a token is pending) | "random_arbitrary" (in the call)
    token,      \* the pending UnmutateToken
    last,       \* the last operation and what it returned
    pre,        \* the (value, cache) pair before the pending mutation
    arbStart,   \* the ArbitraryStep the current enumeration started from
    arbSeq,     \* the chars ordered_arbitrary has returned since then, in order
    arbNone,    \* the largest max_cplx for which ordered_arbitrary has returned None since then
    mutOk,      \* successful ordered_mutate results since mstep was last initialised
    mutNone,    \* the largest max_cplx for which ordered_mutate has returned None since then
    \* ---- LargeStepFindIter ----
    slice, position, findLast, findHist,
    \* ---- Slab ----
    storage, available_slots, slabLive, slabWritten, slabLast,
    \* ---- WeightedIndex ----
    cumulative_weights, sampleLast,
    \* ---- HBitSet ----
    hbits, hbPending, hbLast,
    \* ---- ASTMutator::from_grammar ----
    grammar,    \* the grammar handed to from_grammar
    built,      \* what from_grammar did with it
    \* ---- CodeCoverageSensor ----
    functions,      \* the linked Coverage of every function of the binary, and the filters
    coverage,       \* CodeCoverageSensor.coverage (None before new)
    index_ranges,   \* CodeCoverageSensor.index_ranges
    counters,       \* the counter memory of the binary, by address
    sinceClear,     \* the increments of each counter since the last clear (<<>> before the first)
    senLast,        \* the last call on the sensor and the features it handed out
    \* ---- cargo-fuzzcheck minify ----
    artifacts,      \* the file names of the artifacts folder, in read_dir order
    simplest,       \* input_minify_command's `simplest`
    minPc,          \* "start" | "read" (read child running) | "loop" | "minify" (minify child running) | "done"
    child,          \* the child launched last: command, input file, the folder when it was launched
    firstChild,     \* the child launched first
    nMinify,        \* the minify children launched
    minResult,      \* "running" | "Err" (an I/O error was returned) | "panic" (the assertion failed) | "Ok"
    \* ---- CharWithinRangeMutator::new ----
    range,          \* the range handed to new: <<start bound, end bound>>
    made            \* what new did with it (None before the call)

mutVars  == <<mutator, value, cache, mstep, astep, pc, token, last, pre,
              arbStart, arbSeq, arbNone, mutOk, mutNone>>
findVars == <<slice, position, findLast, findHist>>
slabVars == <<storage, available_slots, slabLive, slabWritten, slabLast>>
wiVars   == <<cumulative_weights, sampleLast>>
hbVars   == <<hbits, hbPending, hbLast>>
grVars   == <<grammar, built>>
senVars  == <<functions, coverage, index_ranges, counters, sinceClear, senLast>>
minVars  == <<artifacts, simplest, minPc, child, firstChild, nMinify, minResult>>
newVars  == <<range, made>>
vars     == <<mutVars, findVars, slabVars, wiVars, hbVars, grVars, senVars, minVars,
              newVars>>

----------------------------------------------------------------------------
(* Bounds of the model *)

\* the largest len_range of the mutators of Init
MaxLenRange == 2
\* the largest len_range of the mutators of EnumInit: 'a'..='z'
MaxEnumLen == 25
\* the longest slice a LargeStepFindIter is built over
MaxSliceLen == 26
\* how far past the end of its slice a cursor may lie when find is called
MaxOvershoot == 24
\* the most slots a Slab's storage grows to, and the longest free list
MaxSlabLen == 3
MaxFree == 3
\* the values stored in a Slab are 1 .. MaxSlabValue
MaxSlabValue == 2
\* the most distinct indices set in an HBitSet between two drains
MaxSets == 4
\* the most nodes of a grammar, and the addresses of Recursive bodies 1 .. MaxPtr
MaxGrammarNodes == 4
MaxPtr == 2
\* the most functions of a binary, and the largest value a counter reaches
MaxFunctions == 2
MaxCount == 2
\* the most files of the artifacts folder, and the most minify children launched
MaxFiles == 2
MaxChildren == 2
\* the chars a bound of a range given to new names are 0 .. MaxBoundChar,
\* 'a' .. 'a' + MaxBoundChar and char::MAX - MaxBoundChar .. char::MAX
MaxBoundChar == 1
\* how many code points before the first and after the last surrogate the
\* bounds of a range given to new may lie
MaxMargin == 2
\* the longest cumulative-weight vector, and the largest cumulative weight
MaxWeights == 4
MaxWeight == 4
\* how far past len_range an initial ArbitraryStep may lie
StepSlack == 1

----------------------------------------------------------------------------
(* Option and Either values *)

None == [some |-> FALSE]
Some(x) == [some |-> TRUE, v |-> x]

Left(x) == [tag |-> "Left", v |-> x]
Right(x) == [tag |-> "Right", v |-> x]

\* the unit value ()
Unit == "unit"

----------------------------------------------------------------------------
(* char and u32 *)

\* the surrogate code points, which char::from_u32 rejects
SurrogateFirst == 55296
SurrogateLast == 57343
\* char::MAX as u32
CharMax == 1114111

\* char::from_u32(cp).is_some()
IsChar(cp) == cp >= 0 /\ cp <= CharMax /\ ~(cp >= SurrogateFirst /\ cp <= SurrogateLast)

\* 2^16: u32 arithmetic is done on two 16-bit limbs, so that it wraps at 2^32
Limb == 65536

\* u32::wrapping_add
wrapping_add(a, b) ==
    LET lo == (a % Limb) + (b % Limb)
        hi == (a \div Limb) + (b \div Limb) + (lo \div Limb)
    IN  (hi % Limb) * Limb + (lo % Limb)

----------------------------------------------------------------------------
(* mutators::integer::binary_search_arbitrary_u32: the binary-search        *)
(* permutation of low..=high: the midpoint first, then, alternately, the   *)
(* permutations of the upper and of the lower half.                        *)

RECURSIVE binary_search_arbitrary_u32(_, _, _)
binary_search_arbitrary_u32(low, high, step) ==
    LET next == low + (high - low) \div 2 IN
    IF low + 1 >= high
    THEN IF step % 2 = 0 THEN high ELSE low
    ELSE IF step = 0
    THEN next
    ELSE IF step % 2 = 1
    THEN binary_search_arbitrary_u32(next + 1, high, step \div 2)
    ELSE binary_search_arbitrary_u32(low, next - 1, (step - 1) \div 2)

----------------------------------------------------------------------------
(* CharWithinRangeMutator *)

INITIAL_MUTATION_STEP == 0

\* the complexity every CharWithinRangeMutator reports (new: let cplx = 8.)
CharCplx == 8

\* the mutator new builds for the range start..=end, start <= end
CharWithinRangeMutator(start, end) ==
    [start_range |-> start, len_range |-> end - start, cplx |-> CharCplx]

Char_default_arbitrary_step(self) == 0

Char_validate_value(self, v) ==
    IF v >= self.start_range /\ v <= self.start_range + self.len_range
    THEN Some(<<Unit, INITIAL_MUTATION_STEP>>)
    ELSE None

Char_max_complexity(self) == self.cplx

Char_min_complexity(self) == self.cplx

Char_complexity(self, v, c) == self.cplx

\* ordered_arbitrary without the `*step += 1` of a successful call
RECURSIVE Char_ordered_arbitrary_step_kept(_, _, _)
Char_ordered_arbitrary_step_kept(self, step, max_cplx) ==
    IF max_cplx < Char_min_complexity(self)
    THEN [ret |-> None, step |-> step]
    ELSE IF step > self.len_range
    THEN [ret |-> None, step |-> step]
    ELSE LET result == binary_search_arbitrary_u32(0, self.len_range, step)
             c == wrapping_add(self.start_range, result)
         IN  IF IsChar(c)
             THEN [ret |-> Some(<<c, self.cplx>>), step |-> step]
             ELSE Char_ordered_arbitrary_step_kept(self, step + 2, max_cplx)

\* ordered_arbitrary with `*step >= self.len_range` for `*step > self.len_range`
RECURSIVE Char_ordered_arbitrary_stops_early(_, _, _)
Char_ordered_arbitrary_stops_early(self, step, max_cplx) ==
    IF max_cplx < Char_min_complexity(self)
    THEN [ret |-> None, step |-> step]
    ELSE IF step >= self.len_range
    THEN [ret |-> None, step |-> step]
    ELSE LET result == binary_search_arbitrary_u32(0, self.len_range, step)
             step1 == step + 1
             c == wrapping_add(self.start_range, result)
         IN  IF IsChar(c)
             THEN [ret |-> Some(<<c, self.cplx>>), step |-> step1]
             ELSE Char_ordered_arbitrary_stops_early(self, step1 + 1, max_cplx)

\* ordered_arbitrary: [ret |-> Option<(char, f64)>, step |-> the step left behind]
RECURSIVE Char_ordered_arbitrary(_, _, _)
Char_ordered_arbitrary(self, step, max_cplx) ==
    IF max_cplx < Char_min_complexity(self)
    THEN [ret |-> None, step |-> step]
    ELSE IF step > self.len_range
    THEN [ret |-> None, step |-> step]
    ELSE LET result == binary_search_arbitrary_u32(0, self.len_range, step)
             step1 == step + 1
             c == wrapping_add(self.start_range, result)
         IN  IF IsChar(c)
             THEN [ret |-> Some(<<c, self.cplx>>), step |-> step1]
             ELSE Char_ordered_arbitrary(self, step1 + 1, max_cplx)

\* the draws of a range that runs one code point too far
Char_rng_draws_one_more(self) ==
    self.start_range .. wrapping_add(self.start_range, self.len_range) + 1

\* the code points rng.u32(start_range..=start_range.wrapping_add(len_range)) may draw
Char_rng_draws(self) ==
    self.start_range .. wrapping_add(self.start_range, self.len_range)

\* one execution of random_arbitrary's body with the draw `draw`:
\* Some((char, cplx)) when it returns, None when it calls itself again
Char_random_arbitrary_body(self, draw, max_cplx) ==
    IF IsChar(draw) THEN Some(<<draw, self.cplx>>) ELSE None

\* ordered_mutate without the check of max_cplx against min_complexity()
RECURSIVE Char_ordered_mutate_any_cplx(_, _, _, _, _)
Char_ordered_mutate_any_cplx(self, v, c, step, max_cplx) ==
    IF step > self.len_range
    THEN [ret |-> None, value |-> v, cache |-> c, step |-> step]
    ELSE LET tok == v
             result == binary_search_arbitrary_u32(0, self.len_range, step)
             r == wrapping_add(self.start_range, result)
         IN  IF IsChar(r)
             THEN IF r = v
                  THEN Char_ordered_mutate_any_cplx(self, v, c, step + 1, max_cplx)
                  ELSE [ret |-> Some(<<tok, self.cplx>>), value |-> r, cache |-> c,
                        step |-> step + 1]
             ELSE Char_ordered_mutate_any_cplx(self, v, c, step + 1, max_cplx)

\* ordered_mutate: [ret |-> Option<(token, f64)>, value, cache, step left behind]
RECURSIVE Char_ordered_mutate(_, _, _, _, _)
Char_ordered_mutate(self, v, c, step, max_cplx) ==
    IF max_cplx < Char_min_complexity(self)
    THEN [ret |-> None, value |-> v, cache |-> c, step |-> step]
    ELSE IF step > self.len_range
    THEN [ret |-> None, value |-> v, cache |-> c, step |-> step]
    ELSE LET tok == v
             result == binary_search_arbitrary_u32(0, self.len_range, step)
             r == wrapping_add(self.start_range, result)
         IN  IF IsChar(r)
             THEN IF r = v
                  THEN Char_ordered_mutate(self, v, c, step + 1, max_cplx)
                  ELSE [ret |-> Some(<<tok, self.cplx>>), value |-> r, cache |-> c,
                        step |-> step + 1]
             ELSE Char_ordered_mutate(self, v, c, step + 1, max_cplx)

\* random_mutate with the draw `draw`: [ret |-> (token, f64), value, cache]
Char_random_mutate(self, v, c, draw, max_cplx) ==
    [ret |-> <<v, self.cplx>>,
     value |-> IF IsChar(draw) THEN draw ELSE v,
     cache |-> c]

\* unmutate that leaves the mutated value in place
Char_unmutate_value_kept(self, v, c, t) == [value |-> v, cache |-> c]

\* unmutate: [value, cache]
Char_unmutate(self, v, c, t) == [value |-> t, cache |-> c]

----------------------------------------------------------------------------
(* Either<M1, M2>, with M1 = M2 = CharWithinRangeMutator.                   *)
(* either.rs is written against the Mutator trait in which validate_value  *)
(* yields the Cache and default_mutation_step the MutationStep; char.rs    *)
(* yields both from validate_value. Inner_* read the two halves of that    *)
(* pair.  A mismatch of variants reaches unreachable!(): panic |-> TRUE.   *)

Inner_validate_value(m, v) ==
    LET r == Char_validate_value(m, v) IN
    IF r.some THEN Some(r.v[1]) ELSE None

Inner_default_mutation_step(m, v, c) == Char_validate_value(m, v).v[2]

Either_default_arbitrary_step(self) ==
    IF self.tag = "Left"
    THEN Left(Char_default_arbitrary_step(self.v))
    ELSE Right(Char_default_arbitrary_step(self.v))

\* validate_value that wraps the inner cache in Left whatever the mutator is
Either_validate_value_always_left(self, v) ==
    LET c == Inner_validate_value(self.v, v) IN
    IF ~c.some THEN None ELSE Some(Left(c.v))

Either_validate_value(self, v) ==
    LET c == Inner_validate_value(self.v, v) IN
    IF ~c.some THEN None
    ELSE IF self.tag = "Left" THEN Some(Left(c.v)) ELSE Some(Right(c.v))

Either_default_mutation_step(self, v, c) ==
    IF self.tag = "Left" /\ c.tag = "Left"
    THEN [panic |-> FALSE, inner |-> TRUE,
          ret |-> Left(Inner_default_mutation_step(self.v, v, c.v))]
    ELSE IF self.tag = "Right" /\ c.tag = "Right"
    THEN [panic |-> FALSE, inner |-> TRUE,
          ret |-> Right(Inner_default_mutation_step(self.v, v, c.v))]
    ELSE [panic |-> TRUE, inner |-> FALSE, ret |-> None]

Either_max_complexity(self) == Char_max_complexity(self.v)

Either_min_complexity(self) == Char_min_complexity(self.v)

Either_complexity(self, v, c) ==
    IF self.tag = c.tag
    THEN [panic |-> FALSE, inner |-> TRUE, ret |-> Char_complexity(self.v, v, c.v)]
    ELSE [panic |-> TRUE, inner |-> FALSE, ret |-> 0]

Either_ordered_arbitrary(self, step, max_cplx) ==
    IF self.tag = step.tag
    THEN LET r == Char_ordered_arbitrary(self.v, step.v, max_cplx) IN
         [panic |-> FALSE, inner |-> TRUE, ret |-> r.ret,
          step |-> [tag |-> step.tag, v |-> r.step]]
    ELSE [panic |-> TRUE, inner |-> FALSE, ret |-> None, step |-> step]

Either_random_arbitrary_body(self, draw, max_cplx) ==
    Char_random_arbitrary_body(self.v, draw, max_cplx)

\* ordered_mutate matching on (self, cache) alone, whatever the step's variant
Either_ordered_mutate_step_unmatched(self, v, c, step, max_cplx) ==
    IF self.tag = c.tag
    THEN LET r == Char_ordered_mutate(self.v, v, c.v, step.v, max_cplx) IN
         [panic |-> FALSE, inner |-> TRUE,
          ret   |-> IF r.ret.some
                    THEN Some(<<[tag |-> self.tag, v |-> r.ret.v[1]], r.ret.v[2]>>)
                    ELSE None,
          value |-> r.value,
          cache |-> [tag |-> c.tag, v |-> r.cache],
          step  |-> [tag |-> step.tag, v |-> r.step]]
    ELSE [panic |-> TRUE, inner |-> FALSE, ret |-> None, value |-> v, cache |-> c,
          step |-> step]

Either_ordered_mutate(self, v, c, step, max_cplx) ==
    IF self.tag = c.tag /\ self.tag = step.tag
    THEN LET r == Char_ordered_mutate(self.v, v, c.v, step.v, max_cplx) IN
         [panic |-> FALSE, inner |-> TRUE,
          ret   |-> IF r.ret.some
                    THEN Some(<<[tag |-> self.tag, v |-> r.ret.v[1]], r.ret.v[2]>>)
                    ELSE None,
          value |-> r.value,
          cache |-> [tag |-> c.tag, v |-> r.cache],
          step  |-> [tag |-> step.tag, v |-> r.step]]
    ELSE [panic |-> TRUE, inner |-> FALSE, ret |-> None, value |-> v, cache |-> c,
          step |-> step]

Either_random_mutate(self, v, c, draw, max_cplx) ==
    IF self.tag = c.tag
    THEN LET r == Char_random_mutate(self.v, v, c.v, draw, max_cplx) IN
         [panic |-> FALSE, inner |-> TRUE,
          ret   |-> <<[tag |-> self.tag, v |-> r.ret[1]], r.ret[2]>>,
          value |-> r.value,
          cache |-> [tag |-> c.tag, v |-> r.cache]]
    ELSE [panic |-> TRUE, inner |-> FALSE, ret |-> <<None, 0>>, value |-> v, cache |-> c]

Either_unmutate(self, v, c, t) ==
    IF self.tag = c.tag /\ self.tag = t.tag
    THEN LET r == Char_unmutate(self.v, v, c.v, t.v) IN
         [panic |-> FALSE, inner |-> TRUE, value |-> r.value,
          cache |-> [tag |-> c.tag, v |-> r.cache]]
    ELSE [panic |-> TRUE, inner |-> FALSE, value |-> v, cache |-> c]

\* visit_subvalues: the subvalues the inner mutator shows to visit (a char
\* has none)
Either_visit_subvalues(self, v, c) ==
    IF self.tag = c.tag
    THEN [panic |-> FALSE, inner |-> TRUE, visited |-> <<>>]
    ELSE [panic |-> TRUE, inner |-> FALSE, visited |-> <<>>]

-----
(* The harness's calls, dispatched on the type of its mutator: a           *)
(* CharWithinRangeMutator (cache (), step u64, token char) or an Either of *)
(* one (each of them wrapped in the mutator's variant).                    *)

IsEither(M) == "tag" \in DOMAIN M

\* the CharWithinRangeMutator at the bottom of M
CharOf(M) == IF IsEither(M) THEN M.v ELSE M

M_default_arbitrary_step(M) ==
    IF IsEither(M) THEN Either_default_arbitrary_step(M) ELSE Char_default_arbitrary_step(M)

\* validate_value, then default_mutation_step: Option<(Cache, MutationStep)>
M_validate_value(M, v) ==
    IF IsEither(M)
    THEN LET c == Either_validate_value(M, v) IN
         IF c.some THEN Some(<<c.v, Either_default_mutation_step(M, v, c.v).ret>>) ELSE None
    ELSE Char_validate_value(M, v)

M_min_complexity(M) ==
    IF IsEither(M) THEN Either_min_complexity(M) ELSE Char_min_complexity(M)

M_max_complexity(M) ==
    IF IsEither(M) THEN Either_max_complexity(M) ELSE Char_max_complexity(M)

M_complexity(M, v, c) ==
    IF IsEither(M) THEN Either_complexity(M, v, c).ret ELSE Char_complexity(M, v, c)

M_ordered_arbitrary(M, step, max_cplx) ==
    IF IsEither(M)
    THEN Either_ordered_arbitrary(M, step, max_cplx)
    ELSE LET r == Char_ordered_arbitrary(M, step, max_cplx) IN
         [panic |-> FALSE, ret |-> r.ret, step |-> r.step]

M_random_arbitrary_body(M, draw, max_cplx) ==
    IF IsEither(M)
    THEN Either_random_arbitrary_body(M, draw, max_cplx)
    ELSE Char_random_arbitrary_body(M, draw, max_cplx)

M_ordered_mutate(M, v, c, step, max_cplx) ==
    IF IsEither(M)
    THEN Either_ordered_mutate(M, v, c, step, max_cplx)
    ELSE LET r == Char_ordered_mutate(M, v, c, step, max_cplx) IN
         [panic |-> FALSE, ret |-> r.ret, value |-> r.value, cache |-> r.cache,
          step |-> r.step]

M_random_mutate(M, v, c, draw, max_cplx) ==
    IF IsEither(M)
    THEN Either_random_mutate(M, v, c, draw, max_cplx)
    ELSE LET r == Char_random_mutate(M, v, c, draw, max_cplx) IN
         [panic |-> FALSE, ret |-> r.ret, value |-> r.value, cache |-> r.cache]

M_unmutate(M, v, c, t) ==
    IF IsEither(M)
    THEN Either_unmutate(M, v, c, t)
    ELSE LET r == Char_unmutate(M, v, c, t) IN
         [panic |-> FALSE, value |-> r.value, cache |-> r.cache]

\* the u64 inside a step, the char inside a token
StepNo(M, s) == IF IsEither(M) THEN s.v ELSE s
TokenChar(M, t) == IF IsEither(M) THEN t.v ELSE t

----------------------------------------------------------------------------
(* The states in which a component is not in use *)

MutIdle ==
    /\ mutator = None /\ value = 0 /\ cache = Unit /\ mstep = 0 /\ astep = 0
    /\ pc = "unused" /\ token = 0 /\ last = None /\ pre = None
    /\ arbStart = 0 /\ arbSeq = <<>> /\ arbNone = 0 /\ mutOk = 0 /\ mutNone = 0

FindIdle == slice = <<>> /\ position = 0 /\ findLast = None /\ findHist = <<>>

SlabIdle ==
    /\ storage = <<>> /\ available_slots = <<>>
    /\ slabLive = {} /\ slabWritten = <<>> /\ slabLast = None

WiIdle == cumulative_weights = <<>> /\ sampleLast = None

HbIdle == hbits = None /\ hbPending = {} /\ hbLast = None

GrIdle == grammar = None /\ built = None

SenIdle ==
    /\ functions = None /\ coverage = None /\ index_ranges = <<>>
    /\ counters = <<>> /\ sinceClear = <<>> /\ senLast = None

MinIdle ==
    /\ artifacts = <<>> /\ simplest = <<>> /\ minPc = "unused" /\ child = None
    /\ firstChild = None /\ nMinify = 0 /\ minResult = "unused"

\* the components added to the module after the data structures
NewIdle == range = None /\ made = None

RestIdle == GrIdle /\ SenIdle /\ MinIdle /\ NewIdle

----------------------------------------------------------------------------
(* The mutator harness: one mutator, one value with its cache and step,    *)
(* one arbitrary step.  As in the mutate/unmutate loop of                  *)
(* fuzzcheck_mutators/examples/vector_vector_u8.rs, a mutation is followed *)
(* by unmutate, or the mutated value is kept and validated afresh.         *)

\* no char (a result that is None)
NoChar == 0 - 1

\* no max_cplx yet (below every max_cplx)
NoCplx == 0 - 1

Max(a, b) == IF a >= b THEN a ELSE b

\* the first code points of the ranges of Init: 'a', and two code points
\* before the first and one before the last surrogate
RangeStarts == {97, SurrogateFirst - 2, SurrogateLast - 1}

CharMutators ==
    {CharWithinRangeMutator(s, s + l) : s \in RangeStarts, l \in 0 .. MaxLenRange}

Mutators ==
    CharMutators \cup {Left(m) : m \in CharMutators} \cup {Right(m) : m \in CharMutators}

\* the max_cplx the harness passes: below, at and above the mutator's complexity
MaxCplxChoices == {CharCplx - 1, CharCplx, CharCplx + 1}

\* the chars a mutator's range holds
CharsOf(M) ==
    {c \in CharOf(M).start_range .. CharOf(M).start_range + CharOf(M).len_range : IsChar(c)}

\* an arbitrary step of M's type holding n
StepOf(M, n) == IF IsEither(M) THEN [tag |-> M.tag, v |-> n] ELSE n

Result(op, C, some, val, cplx) ==
    [op |-> op, C |-> C, some |-> some, val |-> val, cplx |-> cplx]

\* a step of the mutator harness leaves the other components alone
MutFrame == UNCHANGED <<findVars, slabVars, wiVars, hbVars, grVars, senVars, minVars, newVars>>

MutInit ==
    /\ mutator \in Mutators
    /\ value \in (IF CharsOf(mutator) = {} THEN {NoChar} ELSE CharsOf(mutator))
    /\ IF value = NoChar
       THEN cache = Unit /\ mstep = 0
       ELSE /\ cache = M_validate_value(mutator, value).v[1]
            /\ mstep = M_validate_value(mutator, value).v[2]
    /\ \E n \in 0 .. CharOf(mutator).len_range + StepSlack :
          /\ astep = StepOf(mutator, n)
          /\ arbStart = n
    /\ pc = "idle"
    /\ token = NoChar
    /\ last = Result("init", 0, FALSE, NoChar, 0)
    /\ pre = [value |-> value, cache |-> cache]
    /\ arbSeq = <<>> /\ arbNone = NoCplx /\ mutOk = 0 /\ mutNone = NoCplx

Init == MutInit /\ FindIdle /\ SlabIdle /\ WiIdle /\ HbIdle /\ RestIdle

\* ordered_arbitrary(&mut astep, C)
OrderedArbitrary(C) ==
    /\ MutFrame
    /\ pc = "idle"
    /\ LET r == M_ordered_arbitrary(mutator, astep, C) IN
       /\ astep' = r.step
       /\ last' = IF r.ret.some
                  THEN Result("ordered_arbitrary", C, TRUE, r.ret.v[1], r.ret.v[2])
                  ELSE Result("ordered_arbitrary", C, FALSE, NoChar, 0)
       /\ arbSeq' = IF r.ret.some THEN Append(arbSeq, r.ret.v[1]) ELSE arbSeq
       /\ arbNone' = IF r.ret.some THEN arbNone ELSE Max(arbNone, C)
    /\ UNCHANGED <<mutator, value, cache, mstep, pc, token, pre, arbStart, mutOk, mutNone>>

\* the harness starts a new enumeration from default_arbitrary_step
ResetArbitraryStep ==
    /\ MutFrame
    /\ pc = "idle"
    /\ astep' = M_default_arbitrary_step(mutator)
    /\ arbStart' = StepNo(mutator, M_default_arbitrary_step(mutator))
    /\ arbSeq' = <<>>
    /\ arbNone' = NoCplx
    /\ last' = Result("reset", 0, FALSE, NoChar, 0)
    /\ UNCHANGED <<mutator, value, cache, mstep, pc, token, pre, mutOk, mutNone>>

\* random_arbitrary(C) is called
RandomArbitraryCall(C) ==
    /\ MutFrame
    /\ pc = "idle"
    /\ pc' = "random_arbitrary"
    /\ last' = Result("random_arbitrary_call", C, FALSE, NoChar, 0)
    /\ UNCHANGED <<mutator, value, cache, mstep, astep, token, pre,
                   arbStart, arbSeq, arbNone, mutOk, mutNone>>

\* one execution of random_arbitrary's body: it draws, and returns the char
\* drawn or calls itself again
RandomArbitraryBody ==
    /\ MutFrame
    /\ pc = "random_arbitrary"
    /\ \/ \E draw \in {d \in Char_rng_draws(CharOf(mutator)) :
                            M_random_arbitrary_body(mutator, d, last.C).some} :
             LET r == M_random_arbitrary_body(mutator, draw, last.C) IN
             /\ pc' = "idle"
             /\ last' = Result("random_arbitrary", last.C, TRUE, r.v[1], r.v[2])
       \/ /\ {d \in Char_rng_draws(CharOf(mutator)) :
                    ~M_random_arbitrary_body(mutator, d, last.C).some} # {}
          /\ UNCHANGED <<pc, last>>
    /\ UNCHANGED <<mutator, value, cache, mstep, astep, token, pre,
                   arbStart, arbSeq, arbNone, mutOk, mutNone>>

\* ordered_mutate(&mut value, &mut cache, &mut mstep, C)
OrderedMutate(C) ==
    /\ MutFrame
    /\ pc = "idle"
    /\ value # NoChar
    /\ LET r == M_ordered_mutate(mutator, value, cache, mstep, C) IN
       /\ value' = r.value
       /\ cache' = r.cache
       /\ mstep' = r.step
       /\ IF r.ret.some
          THEN /\ pc' = "mutated"
               /\ token' = r.ret.v[1]
               /\ pre' = [value |-> value, cache |-> cache]
               /\ last' = Result("ordered_mutate", C, TRUE, r.value, r.ret.v[2])
               /\ mutOk' = mutOk + 1
               /\ UNCHANGED mutNone
          ELSE /\ last' = Result("ordered_mutate", C, FALSE, r.value, 0)
               /\ mutNone' = Max(mutNone, C)
               /\ UNCHANGED <<pc, token, pre, mutOk>>
    /\ UNCHANGED <<mutator, astep, arbStart, arbSeq, arbNone>>

\* random_mutate(&mut value, &mut cache, C)
RandomMutate(C) ==
    /\ MutFrame
    /\ pc = "idle"
    /\ value # NoChar
    /\ \E draw \in Char_rng_draws(CharOf(mutator)) :
          LET r == M_random_mutate(mutator, value, cache, draw, C) IN
          /\ value' = r.value
          /\ cache' = r.cache
          /\ token' = r.ret[1]
          /\ last' = Result("random_mutate", C, TRUE, r.value, r.ret[2])
    /\ pc' = "mutated"
    /\ pre' = [value |-> value, cache |-> cache]
    /\ UNCHANGED <<mutator, mstep, astep, arbStart, arbSeq, arbNone, mutOk, mutNone>>

\* unmutate(&mut value, &mut cache, token)
Unmutate ==
    /\ MutFrame
    /\ pc = "mutated"
    /\ LET r == M_unmutate(mutator, value, cache, token) IN
       /\ value' = r.value
       /\ cache' = r.cache
    /\ pc' = "idle"
    /\ token' = NoChar
    /\ last' = Result("unmutate", 0, FALSE, NoChar, 0)
    /\ UNCHANGED <<mutator, mstep, astep, pre, arbStart, arbSeq, arbNone, mutOk, mutNone>>

\* the harness takes v as its value: validate_value(v) gives the new cache
\* and step; a rejected value is dropped and (value, cache) stay as they are
Take(op, v) ==
    LET r == M_validate_value(mutator, v) IN
    /\ last' = Result(op, 0, r.some, v, 0)
    /\ IF r.some
       THEN /\ value' = v
            /\ cache' = r.v[1]
            /\ mstep' = r.v[2]
            /\ pre' = [value |-> v, cache |-> r.v[1]]
            /\ mutOk' = 0
            /\ mutNone' = NoCplx
       ELSE UNCHANGED <<value, cache, mstep, pre, mutOk, mutNone>>

\* the mutated value is kept instead of being unmutated
Keep ==
    /\ MutFrame
    /\ pc = "mutated"
    /\ Take("keep", value)
    /\ pc' = "idle"
    /\ token' = NoChar
    /\ UNCHANGED <<mutator, astep, arbStart, arbSeq, arbNone>>

\* the char an arbitrary call has just produced becomes the harness's value
Adopt ==
    /\ MutFrame
    /\ pc = "idle"
    /\ last.op \in {"ordered_arbitrary", "random_arbitrary"}
    /\ last.some
    /\ Take("adopt", last.val)
    /\ UNCHANGED <<mutator, astep, pc, token, arbStart, arbSeq, arbNone>>

Next ==
    \/ \E C \in MaxCplxChoices : OrderedArbitrary(C)
    \/ ResetArbitraryStep
    \/ \E C \in MaxCplxChoices : RandomArbitraryCall(C)
    \/ RandomArbitraryBody
    \/ \E C \in MaxCplxChoices : OrderedMutate(C)
    \/ \E C \in MaxCplxChoices : RandomMutate(C)
    \/ Unmutate
    \/ Keep
    \/ Adopt

Spec == Init /\ [][Next]_vars

----------------------------------------------------------------------------
(* Claims about the mutators, under Spec *)

\* C1: the round-trip law.  Whenever ordered_mutate or random_mutate has
\* returned a token, for a CharWithinRangeMutator or an Either of one, for
\* every value, step and max_cplx, unmutate with that token leaves exactly
\* the (value, cache) pair from before the mutation; this holds after any
\* number of mutate/unmutate pairs.
RoundTripLaw ==
    last.op = "unmutate" => (value = pre.value /\ cache = pre.cache)

\* C1's case: an Either mutator has unmutated for at least the second time
RoundTripReached ==
    /\ last.op = "unmutate"
    /\ IsEither(mutator)
    /\ mutOk >= 2
    /\ value = pre.value

\* C7: ordered termination.  From any arbitrary step, ordered_arbitrary
\* returns at most len_range + 1 chars, and once it has returned None for a
\* max_cplx it returns None for it on every later call; ordered_mutate on a
\* value that is unmutated every time returns at most len_range + 1 tokens,
\* and once it has returned None it keeps returning None.
OrderedTermination ==
    /\ [](Len(arbSeq) <= CharOf(mutator).len_range + 1)
    /\ [](mutOk <= CharOf(mutator).len_range + 1)
    /\ [][Len(arbSeq') > Len(arbSeq) => last'.C > arbNone]_vars
    /\ [][mutOk' > mutOk => last'.C > mutNone]_vars

\* C7's case: both enumerations have run dry after producing something, on
\* a range that holds a surrogate
OrderedTerminationReached ==
    /\ arbNone >= CharCplx
    /\ mutNone >= CharCplx
    /\ Len(arbSeq) >= 1
    /\ mutOk >= 1
    /\ CharsOf(mutator) # Char_rng_draws(CharOf(mutator))

\* the operations that produce a value, and the value each has produced
Producing == {"ordered_arbitrary", "random_arbitrary", "ordered_mutate", "random_mutate"}
Arbitraries == {"ordered_arbitrary", "random_arbitrary"}
Produced == IF last.op \in Arbitraries THEN last.val ELSE value
ProducedCache ==
    IF last.op \in Arbitraries THEN M_validate_value(mutator, last.val).v[1] ELSE cache

\* C9 as stated: for every max_cplx C, also below min_complexity(), a value
\* produced under C is reported with a complexity <= C, which equals
\* complexity(v, cache) and lies between min_complexity() and max_complexity().
ComplexityBoundForEveryMaxCplx ==
    (last.op \in Producing /\ last.some) =>
        /\ last.cplx <= last.C
        /\ last.cplx = M_complexity(mutator, Produced, ProducedCache)
        /\ M_min_complexity(mutator) <= last.cplx
        /\ last.cplx <= M_max_complexity(mutator)

\* C9, amended: the reported complexity is <= C whenever C is at least
\* min_complexity(), and for the ordered operations for every C (below
\* min_complexity() they produce nothing); it always equals
\* complexity(v, cache) and lies between min_complexity() and max_complexity().
ComplexityBound ==
    (last.op \in Producing /\ last.some) =>
        /\ last.C >= M_min_complexity(mutator) => last.cplx <= last.C
        /\ last.op \in {"ordered_arbitrary", "ordered_mutate"} => last.cplx <= last.C
        /\ last.cplx = M_complexity(mutator, Produced, ProducedCache)
        /\ M_min_complexity(mutator) <= last.cplx
        /\ last.cplx <= M_max_complexity(mutator)

\* C9's case: a random operation has produced a value under a max_cplx equal
\* to min_complexity()
ComplexityBoundReached ==
    /\ last.op \in {"random_arbitrary", "random_mutate"}
    /\ last.some
    /\ last.C = M_min_complexity(mutator)
    /\ last.cplx = last.C

\* v lies in [start_range, start_range + len_range]
InRange(M, v) ==
    v >= CharOf(M).start_range /\ v <= CharOf(M).start_range + CharOf(M).len_range

EitherKeepsVariant ==
    IsEither(mutator) =>
        /\ astep.tag = mutator.tag
        /\ Either_default_arbitrary_step(mutator).tag = mutator.tag
        /\ \A C \in MaxCplxChoices :
              ~Either_ordered_arbitrary(mutator, astep, C).panic
        /\ value # NoChar =>
              /\ cache.tag = mutator.tag
              /\ Either_validate_value(mutator, value).v.tag = mutator.tag
              /\ ~Either_default_mutation_step(mutator, value, cache).panic
              /\ Either_default_mutation_step(mutator, value, cache).ret.tag = mutator.tag
              /\ mstep.tag = mutator.tag
              /\ ~Either_complexity(mutator, value, cache).panic
              /\ ~Either_visit_subvalues(mutator, value, cache).panic
              /\ \A C \in MaxCplxChoices :
                    LET r == Either_ordered_mutate(mutator, value, cache, mstep, C) IN
                    /\ ~r.panic
                    /\ r.cache.tag = mutator.tag /\ r.step.tag = mutator.tag
                    /\ r.ret.some => r.ret.v[1].tag = mutator.tag
              /\ \A C \in MaxCplxChoices, draw \in Char_rng_draws(CharOf(mutator)) :
                    LET r == Either_random_mutate(mutator, value, cache, draw, C) IN
                    /\ ~r.panic
                    /\ r.cache.tag = mutator.tag
                    /\ r.ret[1].tag = mutator.tag
        /\ pc = "mutated" =>
              /\ token.tag = mutator.tag
              /\ ~Either_unmutate(mutator, value, cache, token).panic
              /\ Either_unmutate(mutator, value, cache, token).cache.tag = mutator.tag

\* C24's case: a Right mutator has enumerated a char, adopted it and
\* mutated it, and holds the token of the mutation
EitherKeepsVariantReached ==
    /\ IsEither(mutator)
    /\ mutator.tag = "Right"
    /\ pc = "mutated"
    /\ last.op = "ordered_mutate"
    /\ token.tag = "Right"
    /\ Len(arbSeq) >= 1
    /\ StepNo(mutator, mstep) >= 1

----------------------------------------------------------------------------
(* Ordered enumeration alone: mutators over ranges of valid code points,   *)
(* up to 'a'..='z', enumerated from default_arbitrary_step                  *)
(* (specification SpecEnumerate).                                          *)

\* the first code points of the ranges of EnumInit: 'a', and the first code
\* point after the surrogates
EnumStarts == {97, SurrogateLast + 1}

EnumCharMutators ==
    {CharWithinRangeMutator(s, s + l) : s \in EnumStarts, l \in 0 .. MaxEnumLen}

EnumMutators ==
    EnumCharMutators \cup {Left(m) : m \in EnumCharMutators}
                     \cup {Right(m) : m \in EnumCharMutators}

EnumInit ==
    /\ mutator \in EnumMutators
    /\ value = NoChar /\ cache = Unit /\ mstep = 0
    /\ astep = M_default_arbitrary_step(mutator)
    /\ arbStart = StepNo(mutator, astep)
    /\ pc = "idle"
    /\ token = NoChar
    /\ last = Result("init", 0, FALSE, NoChar, 0)
    /\ pre = [value |-> value, cache |-> cache]
    /\ arbSeq = <<>> /\ arbNone = NoCplx /\ mutOk = 0 /\ mutNone = NoCplx
    /\ FindIdle /\ SlabIdle /\ WiIdle /\ HbIdle /\ RestIdle

EnumNext ==
    \/ \E C \in MaxCplxChoices : OrderedArbitrary(C)
    \/ ResetArbitraryStep

SpecEnumerate == EnumInit /\ [][EnumNext]_vars

\* C8: ordered enumeration without repetition.  Over a range of n
\* consecutive valid code points, starting from default_arbitrary_step, the
\* calls of ordered_arbitrary with max_cplx >= 8 return pairwise distinct
\* chars of the range, never more than n, and None is returned only once n
\* chars have been returned: the first n calls succeed, call n + 1 does not.
EnumerationWithoutRepetition ==
    LET n == CharOf(mutator).len_range + 1 IN
    (arbStart = Char_default_arbitrary_step(CharOf(mutator))
        /\ CharsOf(mutator) = Char_rng_draws(CharOf(mutator))) =>
        /\ \A i, j \in 1 .. Len(arbSeq) : i # j => arbSeq[i] # arbSeq[j]
        /\ \A i \in 1 .. Len(arbSeq) : InRange(mutator, arbSeq[i])
        /\ Len(arbSeq) <= n
        /\ (last.op = "ordered_arbitrary" /\ last.C >= CharCplx /\ ~last.some) =>
              Len(arbSeq) = n

\* C8's case: over 'a'..='z' (with MaxEnumLen = 25), call n + 1 has returned None
EnumerationReached ==
    /\ CharOf(mutator).start_range = 97
    /\ CharOf(mutator).len_range = MaxEnumLen
    /\ Len(arbSeq) = MaxEnumLen + 1
    /\ last.op = "ordered_arbitrary" /\ last.C >= CharCplx /\ ~last.some

----------------------------------------------------------------------------
(* LargeStepFindIter (specification SpecFind).  slice is indexed from 1 in *)
(* the model, position counts from 0 as in the code; the predicate of a    *)
(* find is |y| y.cmp(&t).                                                  *)

\* let mut step: usize = 8
FirstStep == 8
\* step += 8
StepGrowth == 8

\* slice[p], p counted from 0
At(xs, p) == xs[p + 1]

\* slow_find(cmp, start, end), entered with self.position = pos:
\* [ret |-> Option<T>, position |-> the position left behind]
RECURSIVE slow_find(_, _, _, _, _)
slow_find(xs, t, p, end, pos) ==
    IF p >= end
    THEN [ret |-> None, position |-> pos]
    ELSE IF At(xs, p) < t
         THEN slow_find(xs, t, p + 1, end, p)
         ELSE [ret |-> Some(At(xs, p)), position |-> p]

\* the loop of find and the slow find after it, entered with self.position = pos
RECURSIVE find_jumps(_, _, _, _)
find_jumps(xs, t, pos, step) ==
    IF pos < Len(xs)
    THEN IF At(xs, pos) < t
         THEN find_jumps(xs, t, pos + (step + StepGrowth), step + StepGrowth)
         ELSE IF At(xs, pos) = t
         THEN [ret |-> Some(At(xs, pos)), position |-> pos]
         ELSE LET start == pos - step + 1
                  end == pos
                  x == slow_find(xs, t, start, end, pos)
              IN  IF x.ret.some
                  THEN x
                  ELSE find_jumps(xs, t, end + (step + StepGrowth), step + StepGrowth)
    ELSE slow_find(xs, t, pos - step + 1, Len(xs), pos)

\* find(|y| y.cmp(&t)): [ret |-> Option<T>, position |-> the position left behind]
find(xs, pos, t) ==
    IF pos < Len(xs) /\ At(xs, pos) >= t
    THEN [ret |-> Some(At(xs, pos)), position |-> pos]
    ELSE find_jumps(xs, t, pos + FirstStep, FirstStep)

\* The sorted slices of Init: n consecutive integers from 0, except that
\* the element at index g (from 0) and those after it are shifted by d - 1:
\* d = 0 repeats the element before, d = 2 leaves a gap of one value
SortedSlice(n, g, d) == [i \in 1 .. n |-> IF i - 1 >= g THEN (i - 1) + (d - 1) ELSE i - 1]

Slices ==
    {SortedSlice(n, g, d) : n \in 0 .. MaxSliceLen, g \in 1 .. MaxSliceLen, d \in {0, 2}}

\* no target yet (below every target)
NoTarget == 0 - 1

\* the targets of the finds: every value of the slice, the value in its gap
\* and one value past its end
Targets(xs) == 0 .. Len(xs) + 1

FindFrame == UNCHANGED <<mutVars, slabVars, wiVars, hbVars, grVars, senVars, minVars, newVars>>

FindInit ==
    /\ slice \in Slices
    /\ position = 0
    /\ findLast = [op |-> "new", t |-> NoTarget, from |-> 0, ret |-> None]
    /\ findHist = NoTarget
    /\ MutIdle /\ SlabIdle /\ WiIdle /\ HbIdle /\ RestIdle

\* iter.find(|y| y.cmp(&t)), with t at least the targets of the earlier finds
Find(t) ==
    /\ FindFrame
    /\ t >= findHist
    /\ position <= Len(slice) + MaxOvershoot
    /\ LET r == find(slice, position, t) IN
       /\ position' = r.position
       /\ findLast' = [op |-> "find", t |-> t, from |-> position, ret |-> r.ret]
    /\ findHist' = t
    /\ UNCHANGED slice

\* LargeStepFindIter::new(&slice): a fresh iterator over the same slice
NewIter ==
    /\ FindFrame
    /\ position' = 0
    /\ findLast' = [op |-> "new", t |-> NoTarget, from |-> 0, ret |-> None]
    /\ findHist' = NoTarget
    /\ UNCHANGED slice

FindNext ==
    \/ \E t \in Targets(slice) : Find(t)
    \/ NewIter

SpecFind == FindInit /\ [][FindNext]_vars

\* the values of a slice
Values(xs) == {xs[i] : i \in 1 .. Len(xs)}

\* C2: soundness.  On a sorted slice, a find whose target t occurs in the
\* slice returns Some(t), on a fresh iterator and after any earlier finds
\* on the same iterator whose targets were all <= t.
FindSoundness ==
    (findLast.op = "find" /\ findLast.t \in Values(slice)) =>
        findLast.ret = Some(findLast.t)

\* the indices (from 0) at or after `from` whose element is >= t
Matching(xs, from, t) == {p \in from .. Len(xs) - 1 : At(xs, p) >= t}

Lowest(S) == CHOOSE p \in S : \A q \in S : p <= q

\* C3: a find never skips a matching element.  On a sorted slice, for a
\* target that occurs in it or not, a find returns the lowest-index element
\* at or after the cursor that is >= the target, and None only when there
\* is none.
FindNeverSkips ==
    findLast.op = "find" =>
        LET M == Matching(slice, findLast.from, findLast.t) IN
        findLast.ret = IF M = {} THEN None ELSE Some(At(slice, Lowest(M)))

----------------------------------------------------------------------------
(* Slab (specification SlabSpec).  storage is indexed from 1 in the model; *)
(* a SlabKey is its integer key, counted from 0 as in the code.            *)

\* Vec::last
LastOf(q) == q[Len(q)]

\* Vec::pop
Pop(q) == SubSeq(q, 1, Len(q) - 1)

\* insert that pops the free slot but pushes the value instead of writing it there
Slab_insert_pushes(st, free, x) ==
    IF Len(free) > 0
    THEN [storage |-> Append(st, x), available_slots |-> Pop(free), key |-> LastOf(free)]
    ELSE [storage |-> Append(st, x), available_slots |-> free, key |-> Len(st)]

\* insert that recycles the slot removed first instead of the one removed last
Slab_insert_first_removed(st, free, x) ==
    IF Len(free) > 0
    THEN LET slot == free[1] IN
         [storage |-> [st EXCEPT ![slot + 1] = x],
          available_slots |-> SubSeq(free, 2, Len(free)),
          key |-> slot]
    ELSE [storage |-> Append(st, x),
          available_slots |-> free,
          key |-> Len(Append(st, x)) - 1]

\* insert(x): [storage, available_slots, key |-> the key returned]
Slab_insert(st, free, x) ==
    IF Len(free) > 0
    THEN LET slot == LastOf(free) IN
         [storage |-> [st EXCEPT ![slot + 1] = x],
          available_slots |-> Pop(free),
          key |-> slot]
    ELSE [storage |-> Append(st, x),
          available_slots |-> free,
          key |-> Len(Append(st, x)) - 1]

\* remove(key): [storage, available_slots]
Slab_remove(st, free, key) ==
    [storage |-> st, available_slots |-> Append(free, key)]

\* next_key()
Slab_next_key(st, free) == IF Len(free) > 0 THEN LastOf(free) ELSE Len(st)

\* get_mut that looks only at the top of the free list
Slab_get_mut_top_only(st, free, key) ==
    IF Len(free) > 0 /\ LastOf(free) = key THEN None ELSE Some(st[key + 1])

\* get_mut(key): None when the key is in the free list
Slab_get_mut(st, free, key) ==
    IF \E i \in 1 .. Len(free) : free[i] = key THEN None ELSE Some(st[key + 1])

\* slab[key]
Slab_index(st, key) == st[key + 1]

SlabValues == 1 .. MaxSlabValue

SlabFrame == UNCHANGED <<mutVars, findVars, wiVars, hbVars, grVars, senVars, minVars, newVars>>

\* Slab::new()
SlabInit ==
    /\ storage = <<>>
    /\ available_slots = <<>>
    /\ slabLive = {}
    /\ slabWritten = <<>>
    /\ slabLast = [op |-> "new", key |-> 0, val |-> 0]
    /\ MutIdle /\ FindIdle /\ WiIdle /\ HbIdle /\ RestIdle

\* let key = slab.insert(x)
SlabInsert(x) ==
    /\ SlabFrame
    /\ Len(available_slots) > 0 \/ Len(storage) < MaxSlabLen
    /\ LET r == Slab_insert(storage, available_slots, x) IN
       /\ storage' = r.storage
       /\ available_slots' = r.available_slots
       /\ slabLive' = slabLive \cup {r.key}
       /\ slabWritten' = IF r.key < Len(slabWritten)
                         THEN [slabWritten EXCEPT ![r.key + 1] = x]
                         ELSE Append(slabWritten, x)
       /\ slabLast' = [op |-> "insert", key |-> r.key, val |-> x]

\* slab.remove(key), with any key insert has returned: a SlabKey is Copy,
\* and remove does not look at the key
SlabRemove(key) ==
    /\ SlabFrame
    /\ Len(available_slots) < MaxFree
    /\ LET r == Slab_remove(storage, available_slots, key) IN
       /\ storage' = r.storage
       /\ available_slots' = r.available_slots
    /\ slabLive' = slabLive \ {key}
    /\ slabLast' = [op |-> "remove", key |-> key, val |-> 0]
    /\ UNCHANGED slabWritten

SlabNext ==
    \/ \E x \in SlabValues : SlabInsert(x)
    \/ \E key \in 0 .. Len(storage) - 1 : SlabRemove(key)

SlabSpec == SlabInit /\ [][SlabNext]_vars

\* C5: Slab stability.  After any interleaving of insert and remove, slab[k]
\* for a live key k (returned by insert and not removed since) is the value
\* written by the most recent insert that returned k, and an insert or
\* remove of another key leaves the value seen through a live key as it was.
SlabStability ==
    /\ [](\A k \in slabLive : Slab_index(storage, k) = slabWritten[k + 1])
    /\ [][\A k \in slabLive \cap slabLive' :
            slabLast'.key # k => Slab_index(storage', k) = Slab_index(storage, k)]_vars

\* C5's case: a slot has been recycled while another key is live, and the
\* recycled key shows the value of its latest insert
SlabStabilityReached ==
    /\ slabLast.op = "insert"
    /\ slabLast.key < Len(storage) - 1
    /\ slabLive = {0, 1, 2}
    /\ Slab_index(storage, slabLast.key) = slabLast.val
    /\ \E k \in slabLive : Slab_index(storage, k) # slabLast.val

\* C22: Slab recycles slots last-in first-out and remove is pure
\* bookkeeping.  With a non-empty free list, insert returns the slot removed
\* most recently and not yet reused, and overwrites that slot only; with an
\* empty free list it appends a slot, whose key is the storage length
\* before; remove(k) pushes k on the free list and leaves the storage, its
\* length and every stored value, as it was.
SlabRecyclesLastRemoved ==
    [][IF slabLast'.op = "remove"
       THEN /\ storage' = storage
            /\ available_slots' = Append(available_slots, slabLast'.key)
       ELSE /\ slabLast'.op = "insert"
            /\ IF Len(available_slots) > 0
               THEN /\ slabLast'.key = available_slots[Len(available_slots)]
                    /\ available_slots' =
                          SubSeq(available_slots, 1, Len(available_slots) - 1)
                    /\ Len(storage') = Len(storage)
                    /\ storage'[slabLast'.key + 1] = slabLast'.val
                    /\ \A i \in 1 .. Len(storage) :
                          i # slabLast'.key + 1 => storage'[i] = storage[i]
               ELSE /\ slabLast'.key = Len(storage)
                    /\ storage' = Append(storage, slabLast'.val)
                    /\ available_slots' = <<>>]_vars

\* C22's case: an insert has recycled the slot removed last while a slot
\* removed earlier is still free
SlabRecyclesLastRemovedReached ==
    /\ slabLast.op = "insert"
    /\ Len(available_slots) >= 1
    /\ available_slots[1] # slabLast.key
    /\ slabLast.key < Len(storage) - 1

----------------------------------------------------------------------------
(* Slab used as its callers use it: remove is called with a live key only  *)
(* (specification SlabLiveSpec).                                           *)

\* slab.get_mut(key), with any key insert has returned
SlabGetMut(key) ==
    /\ SlabFrame
    /\ slabLast' = [op |-> "get_mut", key |-> key, val |-> 0,
                    ret |-> Slab_get_mut(storage, available_slots, key)]
    /\ UNCHANGED <<storage, available_slots, slabLive, slabWritten>>

SlabLiveNext ==
    \/ \E x \in SlabValues : SlabInsert(x)
    \/ \E key \in slabLive : SlabRemove(key)
    \/ \E key \in 0 .. Len(storage) - 1 : SlabGetMut(key)

SlabLiveSpec == SlabInit /\ [][SlabLiveNext]_vars

\* C23: Slab never hands out a live key.  When remove is only called with a
\* live key, the free list holds no slot twice and no slot of a live key,
\* insert never returns a key that is live, and get_mut returns None for
\* exactly the keys removed and not reused since.
SlabNeverHandsOutLiveKey ==
    /\ [](\A i, j \in 1 .. Len(available_slots) :
             i # j => available_slots[i] # available_slots[j])
    /\ [](\A i \in 1 .. Len(available_slots) : available_slots[i] \notin slabLive)
    /\ [][slabLast'.op = "insert" => slabLast'.key \notin slabLive]_vars
    /\ [](slabLast.op = "get_mut" =>
             (slabLast.ret = None <=> slabLast.key \notin slabLive))
    /\ [](slabLast.op = "get_mut" /\ slabLast.ret # None =>
             slabLast.ret = Some(slabWritten[slabLast.key + 1]))

\* C23's case: with two slots free and one live, get_mut has returned None
\* for the slot removed first
SlabNeverHandsOutLiveKeyReached ==
    /\ slabLast.op = "get_mut"
    /\ slabLast.ret = None
    /\ Len(available_slots) >= 2
    /\ slabLast.key = available_slots[1]
    /\ slabLive # {}

----------------------------------------------------------------------------
(* WeightedIndex (specification SpecWeighted).  cumulative_weights is      *)
(* indexed from 1 in the model; the index sample returns counts from 0.    *)

\* the search of sample with `*w < chosen_weight` for `*w <= chosen_weight`
RECURSIVE binary_search_err_strict(_, _, _, _)
binary_search_err_strict(w, u, left, right) ==
    IF left < right
    THEN LET size == right - left
             mid == left + size \div 2
         IN  IF w[mid + 1] < u
             THEN binary_search_err_strict(w, u, mid + 1, right)
             ELSE binary_search_err_strict(w, u, left, mid)
    ELSE left

\* <[T]>::binary_search_by(f) with f(w) = Less if lessThan(w), Greater
\* otherwise: the loop of the standard library; f never answers Equal, so the
\* result is Err(left)
RECURSIVE binary_search_err(_, _, _, _)
binary_search_err(w, u, left, right) ==
    IF left < right
    THEN LET size == right - left
             mid == left + size \div 2
         IN  IF w[mid + 1] <= u
             THEN binary_search_err(w, u, mid + 1, right)
             ELSE binary_search_err(w, u, left, mid)
    ELSE left

\* sample(rng), the sampler having drawn chosen_weight
WeightedIndex_sample(w, chosen_weight) ==
    binary_search_err(w, chosen_weight, 0, Len(w))

Nondecreasing(w) == \A i \in 1 .. Len(w) - 1 : w[i] <= w[i + 1]

\* the cumulative-weight vectors of Init: non-empty, nondecreasing, with a
\* positive total
WeightVectors ==
    {w \in UNION {[1 .. n -> 0 .. MaxWeight] : n \in 1 .. MaxWeights} :
        Nondecreasing(w) /\ w[Len(w)] > 0}

WiFrame == UNCHANGED <<mutVars, findVars, slabVars, hbVars, grVars, senVars, minVars, newVars>>

WiInit ==
    /\ cumulative_weights \in WeightVectors
    /\ sampleLast = [op |-> "new", u |-> 0, ret |-> 0]
    /\ MutIdle /\ FindIdle /\ SlabIdle /\ HbIdle /\ RestIdle

\* dist.sample(rng): the uniform sampler over [0, total) draws u
Sample(u) ==
    /\ WiFrame
    /\ sampleLast' = [op |-> "sample", u |-> u,
                      ret |-> WeightedIndex_sample(cumulative_weights, u)]
    /\ UNCHANGED cumulative_weights

WiNext == \E u \in 0 .. LastOf(cumulative_weights) - 1 : Sample(u)

SpecWeighted == WiInit /\ [][WiNext]_vars

\* w[i], i counted from 0, with w[-1] = 0
CumulativeAt(w, i) == IF i < 0 THEN 0 ELSE w[i + 1]

\* C6: WeightedIndex correctness.  For a non-empty nondecreasing w and a
\* draw u with 0 <= u < last(w), sample returns the smallest index i with
\* w[i] > u: i is in bounds, w[i-1] <= u < w[i] (with w[-1] = 0), and the
\* entry i does not have zero weight.
WeightedIndexCorrect ==
    sampleLast.op = "sample" =>
        LET w == cumulative_weights
            u == sampleLast.u
            i == sampleLast.ret
        IN  /\ i >= 0 /\ i < Len(w)
            /\ CumulativeAt(w, i) > u
            /\ \A j \in 0 .. i - 1 : CumulativeAt(w, j) <= u
            /\ CumulativeAt(w, i - 1) <= u
            /\ CumulativeAt(w, i) # CumulativeAt(w, i - 1)

\* C6's case: the draw equals a cumulative weight that two entries share
\* (the second has zero weight), and an entry after them is returned
WeightedIndexReached ==
    /\ sampleLast.op = "sample"
    /\ \E j \in 1 .. Len(cumulative_weights) - 1 :
          /\ cumulative_weights[j] = sampleLast.u
          /\ cumulative_weights[j + 1] = sampleLast.u
          /\ sampleLast.ret > j

----------------------------------------------------------------------------
(* HBitSet (specification SpecHBitSet).  A level is the set of the global  *)
(* positions of its one bits: position g is bit g % 64 of word g \div 64.  *)
(* Every word that is not named is zero.                                   *)

L0_SIZE == 16777216
L1_SIZE == 262144
L2_SIZE == 4096
L3_SIZE == 64
WordBits == 64

\* the capacity, in bits
SIZE == L0_SIZE * WordBits

\* the bits that are one in word w of a level
WordAt(level, w) == {g % WordBits : g \in {x \in level : x \div WordBits = w}}

\* *map = 0
ZeroWord(level, w) == {g \in level : g \div WordBits # w}

\* the words of level[from .. to] that are not zero
NonZeroWords(level, from, to) ==
    {g \div WordBits : g \in {x \in level : x \div WordBits >= from /\ x \div WordBits < to}}

Least(S) == CHOOSE x \in S : \A y \in S : x <= y

\* the elements of a finite set of integers, lowest first
RECURSIVE Ascending(_)
Ascending(S) ==
    IF S = {} THEN <<>> ELSE <<Least(S)>> \o Ascending(S \ {Least(S)})

\* HBitSet::new()
HBitSet_new == [l0 |-> {}, l1 |-> {}, l2 |-> {}, l3 |-> {}]

\* set(idx)
HBitSet_set(self, idx) ==
    LET i0 == idx
        i1 == i0 \div WordBits
        i2 == i1 \div WordBits
        i3 == i2 \div WordBits
    IN  [l0 |-> self.l0 \cup {i0},
         l1 |-> self.l1 \cup {i1},
         l2 |-> self.l2 \cup {i2},
         l3 |-> self.l3 \cup {i3}]

\* the loop over l0 that leaves the words it has reported as they were
RECURSIVE drain_l0_kept(_, _, _)
drain_l0_kept(st, from, to) ==
    LET ws == NonZeroWords(st.l0, from, to) IN
    IF ws = {} THEN st
    ELSE LET w == Least(ws)
             element == w * WordBits
             reported == [i \in 1 .. Cardinality(WordAt(st.l0, w)) |->
                            element + Ascending(WordAt(st.l0, w))[i]]
         IN  drain_l0_kept([st EXCEPT !.calls = @ \o reported], w + 1, to)

\* the loop over self.l0[from .. to]: f(element + bit) for every one bit of
\* every nonzero word, then *map = 0
RECURSIVE drain_l0(_, _, _)
drain_l0(st, from, to) ==
    LET ws == NonZeroWords(st.l0, from, to) IN
    IF ws = {} THEN st
    ELSE LET w == Least(ws)
             element == w * WordBits
             reported == [i \in 1 .. Cardinality(WordAt(st.l0, w)) |->
                            element + Ascending(WordAt(st.l0, w))[i]]
         IN  drain_l0([st EXCEPT !.calls = @ \o reported,
                                 !.l0 = ZeroWord(@, w)], w + 1, to)

\* for bit in 0 .. 64 over word w of l1, from the lowest of bits on
RECURSIVE drain_l1_bits(_, _, _)
drain_l1_bits(st, w, bits) ==
    IF bits = {} THEN st
    ELSE LET bit == Least(bits)
             inner_idx == w * WordBits + bit
         IN  drain_l1_bits(drain_l0(st, inner_idx, inner_idx + (WordBits - bit)),
                           w, bits \ {bit})

\* the loop over self.l1[from .. to]
RECURSIVE drain_l1(_, _, _)
drain_l1(st, from, to) ==
    LET ws == NonZeroWords(st.l1, from, to) IN
    IF ws = {} THEN st
    ELSE LET w == Least(ws)
             done == drain_l1_bits(st, w, WordAt(st.l1, w))
         IN  drain_l1([done EXCEPT !.l1 = ZeroWord(@, w)], w + 1, to)

\* for bit in 0 .. 64 over word w of l2
RECURSIVE drain_l2_bits(_, _, _)
drain_l2_bits(st, w, bits) ==
    IF bits = {} THEN st
    ELSE LET bit == Least(bits)
             inner_idx == w * WordBits + bit
         IN  drain_l2_bits(drain_l1(st, inner_idx, inner_idx + (WordBits - bit)),
                           w, bits \ {bit})

\* the loop over self.l2[from .. to]
RECURSIVE drain_l2(_, _, _)
drain_l2(st, from, to) ==
    LET ws == NonZeroWords(st.l2, from, to) IN
    IF ws = {} THEN st
    ELSE LET w == Least(ws)
             done == drain_l2_bits(st, w, WordAt(st.l2, w))
         IN  drain_l2([done EXCEPT !.l2 = ZeroWord(@, w)], w + 1, to)

\* for bit in 0 .. 64 over word w of l3
RECURSIVE drain_l3_bits(_, _, _)
drain_l3_bits(st, w, bits) ==
    IF bits = {} THEN st
    ELSE LET bit == Least(bits)
             inner_idx == w * WordBits + bit
         IN  drain_l3_bits(drain_l2(st, inner_idx, inner_idx + (WordBits - bit)),
                           w, bits \ {bit})

\* the loop over self.l3
RECURSIVE drain_l3(_, _, _)
drain_l3(st, from, to) ==
    LET ws == NonZeroWords(st.l3, from, to) IN
    IF ws = {} THEN st
    ELSE LET w == Least(ws)
             done == drain_l3_bits(st, w, WordAt(st.l3, w))
         IN  drain_l3([done EXCEPT !.l3 = ZeroWord(@, w)], w + 1, to)

\* drain(f): [l0, l1, l2, l3, calls |-> the arguments of f, in call order]
HBitSet_drain(self) ==
    drain_l3([l0 |-> self.l0, l1 |-> self.l1, l2 |-> self.l2, l3 |-> self.l3,
              calls |-> <<>>], 0, L3_SIZE)

\* the indices set: the first and the last bit of a word at every level,
\* neighbours across a word boundary at every level, and the last index
SetIndices ==
    {0, 1, WordBits - 1, WordBits,
     L2_SIZE - 1, L2_SIZE,
     L1_SIZE - 1, L1_SIZE,
     L0_SIZE - 1, L0_SIZE,
     SIZE - 1}

HbFrame == UNCHANGED <<mutVars, findVars, slabVars, wiVars, grVars, senVars, minVars, newVars>>

HbInit ==
    /\ hbits = HBitSet_new
    /\ hbPending = {}
    /\ hbLast = [op |-> "new", idx |-> 0, calls |-> <<>>, drained |-> {}]
    /\ MutIdle /\ FindIdle /\ SlabIdle /\ WiIdle /\ RestIdle

\* bitset.set(idx)
HbSet(idx) ==
    /\ HbFrame
    /\ idx \in hbPending \/ Cardinality(hbPending) < MaxSets
    /\ hbits' = HBitSet_set(hbits, idx)
    /\ hbPending' = hbPending \cup {idx}
    /\ hbLast' = [op |-> "set", idx |-> idx, calls |-> <<>>, drained |-> {}]

\* bitset.drain(f)
HbDrain ==
    /\ HbFrame
    /\ LET r == HBitSet_drain(hbits) IN
       /\ hbits' = [l0 |-> r.l0, l1 |-> r.l1, l2 |-> r.l2, l3 |-> r.l3]
       /\ hbLast' = [op |-> "drain", idx |-> 0, calls |-> r.calls,
                     drained |-> hbPending]
    /\ hbPending' = {}

HbNext ==
    \/ \E idx \in SetIndices : HbSet(idx)
    \/ HbDrain

SpecHBitSet == HbInit /\ [][HbNext]_vars

\* C4: HBitSet drain.  After any sequence of set(i) calls, with repetitions
\* and with indices on the last bit of a word at every level, drain(f) calls
\* f exactly once for each distinct index that was set and for no other, in
\* strictly ascending order, and leaves every word of the four levels zero,
\* so that a drain that follows immediately calls f zero times.
HBitSetDrain ==
    hbLast.op = "drain" =>
        LET calls == hbLast.calls IN
        /\ \A i \in 1 .. Len(calls) - 1 : calls[i] < calls[i + 1]
        /\ {calls[i] : i \in 1 .. Len(calls)} = hbLast.drained
        /\ Len(calls) = Cardinality(hbLast.drained)
        /\ hbits = HBitSet_new
        /\ HBitSet_drain(hbits).calls = <<>>

\* C4's case: a drain after sets that share a word at every level and that
\* lie on the last bit of a word at every level
HBitSetDrainReached ==
    /\ hbLast.op = "drain"
    /\ hbLast.drained = {0, WordBits - 1, L2_SIZE - 1, L0_SIZE - 1}
    /\ Len(hbLast.calls) = 4

----------------------------------------------------------------------------
(* Either given companions of any variant (specification SpecEither): the  *)
(* cache, the steps and the token are Left or Right independently of the   *)
(* mutator.  A call that reaches unreachable!() ends the program.          *)

EitherMutators == {M \in Mutators : IsEither(M) /\ CharsOf(M) # {}}

Variants(x) == {Left(x), Right(x)}

\* what a call is given
EitherArgs ==
    [value |-> value, cache |-> cache, mstep |-> mstep, astep |-> astep,
     token |-> token]

EitherCall(op, r) ==
    [op |-> op, panic |-> r.panic, inner |-> r.inner, pre |-> EitherArgs]

\* where the program is after a call
AfterCall(r) == IF r.panic THEN "panicked" ELSE "idle"

EitherFrame ==
    UNCHANGED <<mutator, pre, arbStart, arbSeq, arbNone, mutOk, mutNone,
                findVars, slabVars, wiVars, hbVars, grVars, senVars, minVars, newVars>>

EitherInit ==
    /\ mutator \in EitherMutators
    /\ value \in CharsOf(mutator)
    /\ cache \in Variants(Unit)
    /\ \E n \in 0 .. CharOf(mutator).len_range : mstep \in Variants(n)
    /\ astep \in Variants(Char_default_arbitrary_step(CharOf(mutator)))
    /\ \E t \in CharsOf(mutator) : token \in Variants(t)
    /\ pc = "idle"
    /\ last = [op |-> "init", panic |-> FALSE, inner |-> FALSE, pre |-> None]
    /\ pre = None
    /\ arbStart = 0 /\ arbSeq = <<>> /\ arbNone = NoCplx
    /\ mutOk = 0 /\ mutNone = NoCplx
    /\ FindIdle /\ SlabIdle /\ WiIdle /\ HbIdle /\ RestIdle

\* mstep = m.default_mutation_step(&value, &cache)
CallDefaultMutationStep ==
    /\ EitherFrame
    /\ pc = "idle"
    /\ LET r == Either_default_mutation_step(mutator, value, cache) IN
       /\ mstep' = IF r.panic THEN mstep ELSE r.ret
       /\ pc' = AfterCall(r)
       /\ last' = EitherCall("default_mutation_step", r)
    /\ UNCHANGED <<value, cache, astep, token>>

\* m.complexity(&value, &cache)
CallComplexity ==
    /\ EitherFrame
    /\ pc = "idle"
    /\ LET r == Either_complexity(mutator, value, cache) IN
       /\ pc' = AfterCall(r)
       /\ last' = EitherCall("complexity", r)
    /\ UNCHANGED <<value, cache, mstep, astep, token>>

\* m.ordered_arbitrary(&mut astep, C)
CallOrderedArbitrary(C) ==
    /\ EitherFrame
    /\ pc = "idle"
    /\ LET r == Either_ordered_arbitrary(mutator, astep, C) IN
       /\ astep' = r.step
       /\ value' = IF r.ret.some THEN r.ret.v[1] ELSE value
       /\ pc' = AfterCall(r)
       /\ last' = EitherCall("ordered_arbitrary", r)
    /\ UNCHANGED <<cache, mstep, token>>

\* m.ordered_mutate(&mut value, &mut cache, &mut mstep, .., C)
CallOrderedMutate(C) ==
    /\ EitherFrame
    /\ pc = "idle"
    /\ LET r == Either_ordered_mutate(mutator, value, cache, mstep, C) IN
       /\ value' = r.value
       /\ cache' = r.cache
       /\ mstep' = r.step
       /\ token' = IF r.ret.some THEN r.ret.v[1] ELSE token
       /\ pc' = AfterCall(r)
       /\ last' = EitherCall("ordered_mutate", r)
    /\ UNCHANGED astep

\* m.random_mutate(&mut value, &mut cache, C)
CallRandomMutate(C) ==
    /\ EitherFrame
    /\ pc = "idle"
    /\ \E draw \in Char_rng_draws(CharOf(mutator)) :
          LET r == Either_random_mutate(mutator, value, cache, draw, C) IN
          /\ value' = r.value
          /\ cache' = r.cache
          /\ token' = IF r.panic THEN token ELSE r.ret[1]
          /\ pc' = AfterCall(r)
          /\ last' = EitherCall("random_mutate", r)
    /\ UNCHANGED <<mstep, astep>>

\* m.unmutate(&mut value, &mut cache, token)
CallUnmutate ==
    /\ EitherFrame
    /\ pc = "idle"
    /\ LET r == Either_unmutate(mutator, value, cache, token) IN
       /\ value' = r.value
       /\ cache' = r.cache
       /\ pc' = AfterCall(r)
       /\ last' = EitherCall("unmutate", r)
    /\ UNCHANGED <<mstep, astep, token>>

\* m.visit_subvalues(&value, &cache, visit)
CallVisitSubvalues ==
    /\ EitherFrame
    /\ pc = "idle"
    /\ LET r == Either_visit_subvalues(mutator, value, cache) IN
       /\ pc' = AfterCall(r)
       /\ last' = EitherCall("visit_subvalues", r)
    /\ UNCHANGED <<value, cache, mstep, astep, token>>

EitherNext ==
    \/ CallDefaultMutationStep
    \/ CallComplexity
    \/ \E C \in MaxCplxChoices : CallOrderedArbitrary(C)
    \/ \E C \in MaxCplxChoices : CallOrderedMutate(C)
    \/ \E C \in MaxCplxChoices : CallRandomMutate(C)
    \/ CallUnmutate
    \/ CallVisitSubvalues

SpecEither == EitherInit /\ [][EitherNext]_vars

\* the variants a call was given differ from the mutator's or from each other
VariantMismatch(op, M, a) ==
    CASE op \in {"default_mutation_step", "complexity", "random_mutate",
                 "visit_subvalues"} -> a.cache.tag # M.tag
      [] op = "ordered_arbitrary" -> a.astep.tag # M.tag
      [] op = "ordered_mutate" -> a.cache.tag # M.tag \/ a.mstep.tag # M.tag
      [] op = "unmutate" -> a.cache.tag # M.tag \/ a.token.tag # M.tag
      [] OTHER -> FALSE

\* C11: Either fails fast on a variant mismatch.  Each of
\* default_mutation_step, complexity, ordered_arbitrary, ordered_mutate,
\* random_mutate, unmutate and visit_subvalues, given a cache, step or token
\* whose variant differs from the mutator's or from each other, panics
\* without calling an inner mutator and leaves value, cache and steps as
\* they were.
EitherFailsFast ==
    VariantMismatch(last.op, mutator, last.pre) =>
        /\ last.panic
        /\ ~last.inner
        /\ pc = "panicked"
        /\ EitherArgs = last.pre

\* C11's case: ordered_mutate given a cache of the mutator's variant and a
\* step of the other one has panicked
EitherFailsFastReached ==
    /\ last.op = "ordered_mutate"
    /\ last.pre.cache.tag = mutator.tag
    /\ last.pre.mstep.tag # mutator.tag
    /\ last.panic

----------------------------------------------------------------------------
(* ASTMutator::from_grammar (specification SpecGrammar).  A grammar is a   *)
(* tree of records; ptr is the address of the body an Rc or Weak points    *)
(* to, the key of `others`.                                                *)

Literal == [kind |-> "Literal"]
Alternation(gs) == [kind |-> "Alternation", gs |-> gs]
Concatenation(gs) == [kind |-> "Concatenation", gs |-> gs]
Repetition(g) == [kind |-> "Repetition", g |-> g]
Recurse(p) == [kind |-> "Recurse", ptr |-> p]
Recursive(p, g) == [kind |-> "Recursive", ptr |-> p, g |-> g]

Ptrs == 1 .. MaxPtr

\* RecursiveMutator::new(f): calls f once with the weak handle of the
\* mutator under construction and keeps what f builds
RecursiveMutator_new(body) == body

\* from_grammar_rec: [ok |-> FALSE when it panics, others |-> the keys of
\* the map afterwards]; from_grammar_each is the iteration over gs
RECURSIVE from_grammar_rec(_, _)
RECURSIVE from_grammar_each(_, _, _)
from_grammar_each(gs, i, others) ==
    IF i > Len(gs) THEN [ok |-> TRUE, others |-> others]
    ELSE LET m == from_grammar_rec(gs[i], others) IN
         IF m.ok THEN from_grammar_each(gs, i + 1, m.others) ELSE m

from_grammar_rec(g, others) ==
    CASE g.kind = "Literal" -> [ok |-> TRUE, others |-> others]
      [] g.kind = "Alternation" -> from_grammar_each(g.gs, 1, others)
      [] g.kind = "Concatenation" -> from_grammar_each(g.gs, 1, others)
      [] g.kind = "Repetition" -> from_grammar_rec(g.g, others)
      [] g.kind = "Recurse" ->
            IF g.ptr \in others
            THEN [ok |-> TRUE, others |-> others]
            ELSE [ok |-> FALSE, others |-> others]
      [] g.kind = "Recursive" ->
            RecursiveMutator_new(from_grammar_rec(g.g, others \cup {g.ptr}))

\* from_grammar
from_grammar(g) == from_grammar_rec(g, {})

\* the addresses of the Recursive bodies of g, one entry per Recursive node
RECURSIVE RecursivePtrs(_)
RecursivePtrs(g) ==
    CASE g.kind \in {"Alternation", "Concatenation"} ->
            IF Len(g.gs) = 0 THEN <<>>
            ELSE RecursivePtrs(g.gs[1])
                   \o RecursivePtrs([g EXCEPT !.gs = Tail(g.gs)])
      [] g.kind = "Repetition" -> RecursivePtrs(g.g)
      [] g.kind = "Recursive" -> <<g.ptr>> \o RecursivePtrs(g.g)
      [] OTHER -> <<>>

\* distinct bodies live at distinct addresses
DistinctBodies(g) ==
    \A i, j \in 1 .. Len(RecursivePtrs(g)) :
        i # j => RecursivePtrs(g)[i] # RecursivePtrs(g)[j]

\* the grammars of exactly n nodes
RECURSIVE GrammarsOfSize(_)
GrammarsOfSize(n) ==
    IF n = 1 THEN {Literal} \cup {Recurse(p) : p \in Ptrs}
    ELSE {Repetition(g) : g \in GrammarsOfSize(n - 1)}
         \cup {Recursive(p, g) : p \in Ptrs, g \in GrammarsOfSize(n - 1)}
         \cup UNION {{Alternation(<<a, b>>) : a \in GrammarsOfSize(i),
                                             b \in GrammarsOfSize(n - 1 - i)}
                     : i \in 1 .. n - 2}
         \cup UNION {{Concatenation(<<a, b>>) : a \in GrammarsOfSize(i),
                                               b \in GrammarsOfSize(n - 1 - i)}
                     : i \in 1 .. n - 2}

Grammars ==
    {g \in UNION {GrammarsOfSize(n) : n \in 1 .. MaxGrammarNodes} : DistinctBodies(g)}

GrFrame == UNCHANGED <<mutVars, findVars, slabVars, wiVars, hbVars, senVars, minVars, newVars>>

GrInit ==
    /\ grammar \in Grammars
    /\ built = [op |-> "none", ok |-> FALSE, others |-> {}]
    /\ MutIdle /\ FindIdle /\ SlabIdle /\ WiIdle /\ HbIdle /\ SenIdle /\ MinIdle /\ NewIdle

\* grammar_based_ast_mutator(grammar)
FromGrammar ==
    /\ GrFrame
    /\ built.op = "none"
    /\ LET m == from_grammar(grammar) IN
       built' = [op |-> "from_grammar", ok |-> m.ok, others |-> m.others]
    /\ UNCHANGED grammar

GrNext == FromGrammar

SpecGrammar == GrInit /\ [][GrNext]_vars

\* every Recurse of g points to the body of a Recursive among its ancestors
\* (whose addresses are anc)
RECURSIVE ResolvesToAncestors(_, _)
ResolvesToAncestors(g, anc) ==
    CASE g.kind \in {"Alternation", "Concatenation"} ->
            \A i \in 1 .. Len(g.gs) : ResolvesToAncestors(g.gs[i], anc)
      [] g.kind = "Repetition" -> ResolvesToAncestors(g.g, anc)
      [] g.kind = "Recurse" -> g.ptr \in anc
      [] g.kind = "Recursive" -> ResolvesToAncestors(g.g, anc \cup {g.ptr})
      [] OTHER -> TRUE

\* C12: grammar construction rejects unresolved recursion.  from_grammar
\* succeeds only if every Recurse node refers to a Recursive node that is
\* one of its ancestors; a Recurse whose target was never visited, or is a
\* Recursive elsewhere in the tree, makes construction fail.
ConstructionRejectsUnresolved ==
    (built.op = "from_grammar" /\ built.ok) => ResolvesToAncestors(grammar, {})

----------------------------------------------------------------------------
(* CodeCoverageSensor (specification SpecSensor).  The counter memory is a *)
(* sequence of u64 indexed by address (from 1 in the model); a Coverage    *)
(* holds addresses into it.  index_ranges holds pairs <<start, end>>.      *)

\* the sum of the counters at the addresses ptrs
RECURSIVE SumAt(_, _)
SumAt(mem, ptrs) ==
    IF ptrs = <<>> THEN 0 ELSE mem[Head(ptrs)] + SumAt(mem, Tail(ptrs))

\* ExprCounter::compute
ExprCounter_compute(exp, mem) == SumAt(mem, exp.add_terms) - SumAt(mem, exp.sub_terms)

\* Coverage::filter_function_by_files: drops the functions of the files
\* that exclude names and keep does not
filter_function_by_files(cov, exclude, keep) ==
    SelectSeq(cov, LAMBDA c : c.file \in keep \/ c.file \notin exclude)

\* the number of counters of a function
CountersOf(c) == Len(c.single_counters) + Len(c.expression_counters)

\* the loop of new that gives every function one interval too many index
RECURSIVE index_ranges_overlapping(_, _)
index_ranges_overlapping(cov, index) ==
    IF cov = <<>> THEN <<>>
    ELSE LET next_index == index + CountersOf(Head(cov)) IN
         <<<<index, next_index>>>> \o index_ranges_overlapping(Tail(cov), next_index)

\* the loop of new over coverage, from `index` on
RECURSIVE index_ranges_from(_, _)
index_ranges_from(cov, index) ==
    IF cov = <<>> THEN <<>>
    ELSE LET next_index == index + CountersOf(Head(cov)) IN
         <<<<index, next_index - 1>>>> \o index_ranges_from(Tail(cov), next_index)

\* CodeCoverageSensor::new, from the linked coverage of the binary
CodeCoverageSensor_new(linked, exclude, keep) ==
    LET drained == SelectSeq(linked, LAMBDA c : ~(CountersOf(c) <= 1))
        cov == filter_function_by_files(drained, exclude, keep)
    IN  [coverage |-> cov, index_ranges |-> index_ranges_from(cov, 0)]

Feature(index, counter) == [index |-> index, counter |-> counter]

\* the features of the counters cs (values) numbered from index on: one per
\* nonzero counter
RECURSIVE emit_nonzero(_, _)
emit_nonzero(cs, index) ==
    IF cs = <<>> THEN <<>>
    ELSE (IF Head(cs) # 0 THEN <<Feature(index, Head(cs))>> ELSE <<>>)
         \o emit_nonzero(Tail(cs), index + 1)

\* the loop over the single counters that does not skip the first one
iterate_single_unskipped(cov, mem, index) ==
    emit_nonzero([k \in 1 .. Len(cov.single_counters) |-> mem[cov.single_counters[k]]],
                 index)

\* for &single in coverage.single_counters.iter().skip(1)
iterate_single_skip_1(cov, mem, index) ==
    emit_nonzero([k \in 1 .. Len(cov.single_counters) - 1 |->
                     mem[cov.single_counters[k + 1]]], index)

\* iterate_over_collected_features(coverage_index, handle): the features
\* handed to handle, in order.  The read of single counter 0 is unchecked:
\* with no single counter it yields `beyond`, whatever lies there.
iterate_over_collected_features(cov_all, ranges, mem, coverage_index, beyond) ==
    LET cov == cov_all[coverage_index + 1]
        index == ranges[coverage_index + 1][1]
        single == IF Len(cov.single_counters) > 0
                  THEN mem[cov.single_counters[1]] ELSE beyond
        rest == IF Len(cov.single_counters) > 0 THEN Len(cov.single_counters) - 1 ELSE 0
    IN  IF single = 0 THEN <<>>
        ELSE <<Feature(index, single)>>
             \o iterate_single_skip_1(cov, mem, index + 1)
             \o emit_nonzero([k \in 1 .. Len(cov.expression_counters) |->
                                ExprCounter_compute(cov.expression_counters[k], mem)],
                             index + 1 + rest)

\* clear()
CodeCoverageSensor_clear(cov_all, mem) ==
    [a \in 1 .. Len(mem) |->
        IF \E i \in 1 .. Len(cov_all) :
              /\ a >= cov_all[i].start_counters
              /\ a < cov_all[i].start_counters + cov_all[i].counters_len
        THEN 0 ELSE mem[a]]

\* the functions a binary is made of: counters_len counters, the offsets of
\* the single counters and the terms of the expression counters
Expr(add, sub) == [add_terms |-> add, sub_terms |-> sub]

FunctionShapes ==
    { [counters_len |-> 1, single |-> <<0>>, expr |-> <<>>],
      [counters_len |-> 2, single |-> <<0, 1>>, expr |-> <<>>],
      [counters_len |-> 2, single |-> <<0, 1>>, expr |-> <<Expr(<<0>>, <<1>>)>>],
      [counters_len |-> 2, single |-> <<0>>, expr |-> <<Expr(<<0, 1>>, <<>>)>>],
      [counters_len |-> 2, single |-> <<>>,
       expr |-> <<Expr(<<0, 1>>, <<>>), Expr(<<0>>, <<1>>)>>] }

Offset(ptrs, base) == [k \in 1 .. Len(ptrs) |-> base + ptrs[k]]

\* Coverage::new: the Coverage of each function record, function number j
\* lying in file j with its counters from address `base` on
RECURSIVE Coverage_new(_, _, _)
Coverage_new(shapes, j, base) ==
    IF j > Len(shapes) THEN <<>>
    ELSE LET f == shapes[j] IN
         <<[file |-> j,
            single_counters |-> Offset(f.single, base),
            expression_counters |->
                [k \in 1 .. Len(f.expr) |->
                    Expr(Offset(f.expr[k].add_terms, base),
                         Offset(f.expr[k].sub_terms, base))],
            start_counters |-> base,
            counters_len |-> f.counters_len]>>
         \o Coverage_new(shapes, j + 1, base + f.counters_len)

Binaries == UNION {[1 .. n -> FunctionShapes] : n \in 1 .. MaxFunctions}

Files == 1 .. MaxFunctions

\* the length of the counter memory of the linked functions
RECURSIVE MemoryLen(_)
MemoryLen(linked) ==
    IF linked = <<>> THEN 0 ELSE Head(linked).counters_len + MemoryLen(Tail(linked))

SenFrame == UNCHANGED <<mutVars, findVars, slabVars, wiVars, hbVars, grVars, minVars, newVars>>

SenCall(op, i, features) ==
    [op |-> op, coverage_index |-> i, features |-> features]

\* the binary has started: its counters hold what start-up code counted
SenInit ==
    /\ \E shapes \in Binaries, exclude \in SUBSET Files, keep \in SUBSET Files :
          functions = [linked |-> Coverage_new(shapes, 1, 1),
                       exclude |-> exclude, keep |-> keep]
    /\ coverage = None
    /\ index_ranges = <<>>
    /\ \E c \in {0, 1} : counters = [a \in 1 .. MemoryLen(functions.linked) |-> c]
    /\ sinceClear = <<>>
    /\ senLast = SenCall("start", 0, <<>>)
    /\ MutIdle /\ FindIdle /\ SlabIdle /\ WiIdle /\ HbIdle /\ GrIdle /\ MinIdle /\ NewIdle

\* CodeCoverageSensor::new(exclude, keep)
SenNew ==
    /\ SenFrame
    /\ coverage = None
    /\ LET r == CodeCoverageSensor_new(functions.linked, functions.exclude,
                                       functions.keep) IN
       /\ coverage' = Some(r.coverage)
       /\ index_ranges' = r.index_ranges
    /\ senLast' = SenCall("new", 0, <<>>)
    /\ UNCHANGED <<functions, counters, sinceClear>>

\* sensor.clear()
SenClear ==
    /\ SenFrame
    /\ coverage # None
    /\ counters' = CodeCoverageSensor_clear(coverage.v, counters)
    /\ sinceClear' = [a \in 1 .. Len(counters) |-> 0]
    /\ senLast' = SenCall("clear", 0, <<>>)
    /\ UNCHANGED <<functions, coverage, index_ranges>>

\* the instrumented code increments the counter at address a
SenIncrement(a) ==
    /\ SenFrame
    /\ counters[a] < MaxCount
    /\ counters' = [counters EXCEPT ![a] = @ + 1]
    /\ sinceClear' = IF sinceClear = <<>> THEN <<>>
                     ELSE [sinceClear EXCEPT ![a] = @ + 1]
    /\ senLast' = SenCall("increment", 0, <<>>)
    /\ UNCHANGED <<functions, coverage, index_ranges>>

\* sensor.iterate_over_collected_features(i, handle)
SenIterate(i) ==
    /\ SenFrame
    /\ coverage # None
    /\ \E beyond \in 0 .. MaxCount :
          senLast' = SenCall("iterate", i,
                             iterate_over_collected_features(coverage.v, index_ranges,
                                                             counters, i, beyond))
    /\ UNCHANGED <<functions, coverage, index_ranges, counters, sinceClear>>

SenNext == SenNew

SpecSensor == SenInit /\ [][SenNext]_vars

\* The sensor in use (specification SpecDrain): clear, execution and
\* iteration after new.  The features of a function depend on its own
\* counters and on the start of its interval, so binaries of one or two
\* functions are taken, with the first function's file excluded or not.
DrainBinaries == {shapes \in Binaries : Len(shapes) <= 2}

DrainInit ==
    /\ \E shapes \in DrainBinaries, exclude \in {{}, {1}} :
          functions = [linked |-> Coverage_new(shapes, 1, 1),
                       exclude |-> exclude, keep |-> {}]
    /\ LET r == CodeCoverageSensor_new(functions.linked, functions.exclude,
                                       functions.keep) IN
       /\ coverage = Some(r.coverage)
       /\ index_ranges = r.index_ranges
    /\ \E c \in {0, 1} : counters = [a \in 1 .. MemoryLen(functions.linked) |-> c]
    /\ sinceClear = <<>>
    /\ senLast = SenCall("new", 0, <<>>)
    /\ MutIdle /\ FindIdle /\ SlabIdle /\ WiIdle /\ HbIdle /\ GrIdle /\ MinIdle /\ NewIdle

DrainNext ==
    \/ SenClear
    \/ \E a \in 1 .. Len(counters) : SenIncrement(a)
    \/ \E i \in 0 .. Len(coverage.v) - 1 : SenIterate(i)

SpecDrain == DrainInit /\ [][DrainNext]_vars

\* C13: sensor index layout.  After new, index_ranges has one closed
\* interval per retained function; the first starts at 0, each following one
\* starts at the end of the one before plus 1, and each is as long as its
\* function has single and expression counters, at least 2: the intervals
\* are non-empty, disjoint and cover 0 .. total - 1.
SensorIndexLayout ==
    coverage # None =>
        LET n == Len(coverage.v) IN
        /\ Len(index_ranges) = n
        /\ n > 0 => index_ranges[1][1] = 0
        /\ \A i \in 2 .. n : index_ranges[i][1] = index_ranges[i - 1][2] + 1
        /\ \A i \in 1 .. n :
              /\ index_ranges[i][2] - index_ranges[i][1] + 1 = CountersOf(coverage.v[i])
              /\ CountersOf(coverage.v[i]) >= 2

\* C13's case: two functions retained, one dropped by drain_filter or by the
\* file filters, and the second interval follows the first
SensorIndexLayoutReached ==
    /\ coverage # None
    /\ Len(coverage.v) = 2
    /\ Len(functions.linked) > 2 \/ CountersOf(coverage.v[1]) = 3
    /\ index_ranges[2][1] = CountersOf(coverage.v[1])

\* the counters of function i in feature order: the values of its single
\* counters, then the computed values of its expression counters
CounterValues(cov, mem) ==
    [k \in 1 .. Len(cov.single_counters) |-> mem[cov.single_counters[k]]]
    \o [k \in 1 .. Len(cov.expression_counters) |->
           ExprCounter_compute(cov.expression_counters[k], mem)]

\* the features stand for exactly the nonzero ones among the values vs,
\* numbered from start on, each once and in increasing order of index
ExactlyTheNonzero(features, vs, start) ==
    /\ \A n \in 1 .. Len(features) - 1 : features[n].index < features[n + 1].index
    /\ \A n \in 1 .. Len(features) :
          LET k == features[n].index - start + 1 IN
          /\ k \in 1 .. Len(vs)
          /\ vs[k] # 0
          /\ features[n].counter = vs[k]
    /\ \A k \in 1 .. Len(vs) :
          vs[k] # 0 => \E n \in 1 .. Len(features) : features[n].index = start + k - 1

ClearResetsDrain ==
    (senLast.op = "iterate" /\ sinceClear # <<>>) =>
        LET i == senLast.coverage_index + 1
            fresh == CounterValues(coverage.v[i], sinceClear)
        IN  /\ (\A a \in 1 .. Len(sinceClear) : sinceClear[a] = 0)
                  => senLast.features = <<>>
            /\ \A n \in 1 .. Len(senLast.features) :
                  LET k == senLast.features[n].index - index_ranges[i][1] + 1 IN
                  k \in 1 .. Len(fresh) /\ senLast.features[n].counter = fresh[k]

\* C25: the first-counter read is always in bounds.  Every function that
\* new retains has at least one single counter, so the unchecked read of
\* single counter 0 at the start of iterate_over_collected_features lies
\* inside the function's list of single counters.
FirstCounterReadInBounds ==
    /\ coverage # None =>
          \A i \in 1 .. Len(coverage.v) : Len(coverage.v[i].single_counters) >= 1
    /\ senLast.op = "iterate" =>
          0 < Len(coverage.v[senLast.coverage_index + 1].single_counters)

----------------------------------------------------------------------------
(* cargo-fuzzcheck's input_minify_command (specification SpecMinify).  A   *)
(* file name is a sequence of tokens: "--", ".", and runs of other         *)
(* characters.  An f64 is [nan, tenths]: NaN, or a number in tenths.       *)

\* the index of the last token of name equal to t, 0 if there is none
LastIndexOf(name, t) ==
    LET is == {i \in 1 .. Len(name) : name[i] = t} IN
    IF is = {} THEN 0 ELSE CHOOSE i \in is : \A j \in is : j <= i

\* the index of the first token of name equal to t, 0 if there is none
FirstIndexOf(name, t) ==
    LET is == {i \in 1 .. Len(name) : name[i] = t} IN
    IF is = {} THEN 0 ELSE CHOOSE i \in is : \A j \in is : i <= j

\* Path::file_stem: the name up to its last ".", the whole name when it has
\* none or only a leading one
file_stem(name) ==
    LET dot == LastIndexOf(name, ".") IN
    IF dot <= 1 THEN name ELSE SubSeq(name, 1, dot - 1)

\* str::splitn(2, "--")
splitn_2(stem) ==
    LET at == FirstIndexOf(stem, "--") IN
    IF at = 0 THEN <<stem>>
    ELSE <<SubSeq(stem, 1, at - 1), SubSeq(stem, at + 1, Len(stem))>>

Digits == {"1", "2", "5"}

DigitValue(d) == CASE d = "1" -> 1 [] d = "2" -> 2 [] d = "5" -> 5

\* str::parse::<f64>: Option<f64>
parse_f64(str) ==
    IF Len(str) = 1 /\ str[1] \in Digits
    THEN Some([nan |-> FALSE, tenths |-> 10 * DigitValue(str[1])])
    ELSE IF Len(str) = 3 /\ str[1] \in Digits /\ str[2] = "." /\ str[3] \in Digits
    THEN Some([nan |-> FALSE, tenths |-> 10 * DigitValue(str[1]) + DigitValue(str[3])])
    ELSE IF str = <<"NaN">> THEN Some([nan |-> TRUE, tenths |-> 0])
    ELSE None

\* the closure of filter_map: Option<(PathBuf, f64)>
with_complexity(path) ==
    LET name_components == splitn_2(file_stem(path)) IN
    IF Len(name_components) = 2
    THEN LET cplx == parse_f64(name_components[1]) IN
         IF cplx.some THEN Some(<<path, cplx.v>>) ELSE None
    ELSE None

\* partial_cmp(&x.1, &y.1).unwrap_or(Ordering::Equal)
compare_cplx(x, y) ==
    IF x[2].nan \/ y[2].nan THEN "Equal"
    ELSE IF x[2].tenths < y[2].tenths THEN "Less"
    ELSE IF x[2].tenths > y[2].tenths THEN "Greater"
    ELSE "Equal"

\* Iterator::min_by: the accumulator gives way to a later item only when it
\* compares Greater
RECURSIVE min_by(_, _)
min_by(acc, items) ==
    IF items = <<>> THEN acc
    ELSE min_by(IF compare_cplx(acc, Head(items)) = "Greater" THEN Head(items) ELSE acc,
                Tail(items))

\* the items of filter_map over the entries of the folder
RECURSIVE files_with_complexity(_)
files_with_complexity(folder) ==
    IF folder = <<>> THEN <<>>
    ELSE (IF with_complexity(Head(folder)).some
          THEN <<with_complexity(Head(folder)).v>> ELSE <<>>)
         \o files_with_complexity(Tail(folder))

\* simplest_input_file(folder): Option<PathBuf>
simplest_input_file(folder) ==
    LET fs == files_with_complexity(folder) IN
    IF fs = <<>> THEN None ELSE Some(min_by(Head(fs), Tail(fs))[1])

\* Option::unwrap_or
unwrap_or(opt, default) == IF opt.some THEN opt.v ELSE default

\* the seed file the user names (it lies outside the artifacts folder)
Seed == <<"seed", ".", "in">>

\* the file names an artifacts folder holds
ArtifactNames ==
    { <<"1", "--", "a", ".", "in">>,
      <<"1", "--", "b", ".", "in">>,
      <<"2", "--", "c", ".", "in">>,
      <<"1", ".", "5", "--", "d", ".", "in">>,
      <<"1", ".", "5", "--", "e">>,
      <<"NaN", "--", "f", ".", "in">>,
      <<"x", "--", "g", ".", "in">>,
      <<"h", ".", "in">> }

\* the listings of a folder: file names without repetition, in any order
Folders ==
    {f \in UNION {[1 .. n -> ArtifactNames] : n \in 0 .. MaxFiles} :
        \A i, j \in 1 .. Len(f) : i # j => f[i] # f[j]}

\* inserting name before place at of a listing
InsertAt(f, at, name) ==
    SubSeq(f, 1, at - 1) \o <<name>> \o SubSeq(f, at, Len(f))

Child(command, input_file, prev) ==
    [command |-> command, input_file |-> input_file, folder |-> artifacts,
     prev |-> prev]

MinFrame == UNCHANGED <<mutVars, findVars, slabVars, wiVars, hbVars, grVars, senVars, newVars>>

MinInit ==
    /\ artifacts \in Folders
    /\ simplest = Seed
    /\ minPc = "start"
    /\ child = None
    /\ firstChild = None
    /\ nMinify = 0
    /\ minResult = "running"
    /\ MutIdle /\ FindIdle /\ SlabIdle /\ WiIdle /\ HbIdle /\ GrIdle /\ SenIdle /\ NewIdle

\* lines 118-134: select the file, launch the read child (or fail to)
LaunchRead(io_ok) ==
    /\ MinFrame
    /\ minPc = "start"
    /\ LET s == unwrap_or(simplest_input_file(artifacts), simplest) IN
       /\ simplest' = s
       /\ IF io_ok
          THEN /\ child' = Child("read", s, simplest)
               /\ firstChild' = Child("read", s, simplest)
               /\ minPc' = "read"
               /\ minResult' = minResult
          ELSE /\ minPc' = "done"
               /\ minResult' = "Err"
               /\ UNCHANGED <<child, firstChild>>
    /\ UNCHANGED <<artifacts, nMinify>>

\* lines 135-140: wait_with_output and the assertion on the exit status
ReadExits(io_ok, success) ==
    /\ MinFrame
    /\ minPc = "read"
    /\ IF ~io_ok THEN minPc' = "done" /\ minResult' = "Err"
       ELSE IF success THEN minPc' = "done" /\ minResult' = "panic"
       ELSE minPc' = "loop" /\ minResult' = minResult
    /\ UNCHANGED <<artifacts, simplest, child, firstChild, nMinify>>

\* lines 143-157: select the file, launch a minify child (or fail to)
LaunchMinify(io_ok) ==
    /\ MinFrame
    /\ minPc = "loop"
    /\ nMinify < MaxChildren
    /\ LET s == unwrap_or(simplest_input_file(artifacts), simplest) IN
       /\ simplest' = s
       /\ IF io_ok
          THEN /\ child' = Child("minify", s, simplest)
               /\ firstChild' = IF firstChild = None
                                THEN Child("minify", s, simplest) ELSE firstChild
               /\ nMinify' = nMinify + 1
               /\ minPc' = "minify"
               /\ minResult' = minResult
          ELSE /\ minPc' = "done"
               /\ minResult' = "Err"
               /\ UNCHANGED <<child, firstChild, nMinify>>
    /\ UNCHANGED artifacts

\* a loop that ends with Ok once a minify child exits with status zero
MinifyExits_until_success(io_ok, success) ==
    /\ MinFrame
    /\ minPc = "minify"
    /\ IF ~io_ok THEN minPc' = "done" /\ minResult' = "Err"
       ELSE IF success THEN minPc' = "done" /\ minResult' = "Ok"
       ELSE minPc' = "loop" /\ minResult' = minResult
    /\ UNCHANGED <<artifacts, simplest, child, firstChild, nMinify>>

\* line 158: c.wait()?, whatever the exit status
MinifyExits(io_ok, success) ==
    /\ MinFrame
    /\ minPc = "minify"
    /\ IF io_ok THEN minPc' = "loop" /\ minResult' = minResult
       ELSE minPc' = "done" /\ minResult' = "Err"
    /\ UNCHANGED <<artifacts, simplest, child, firstChild, nMinify>>

\* the running minify child saves a failing input in the artifacts folder
ChildWrites(name, at) ==
    /\ MinFrame
    /\ minPc = "minify"
    /\ Len(artifacts) < MaxFiles
    /\ \A i \in 1 .. Len(artifacts) : artifacts[i] # name
    /\ artifacts' = InsertAt(artifacts, at, name)
    /\ UNCHANGED <<simplest, minPc, child, firstChild, nMinify, minResult>>

MinNext ==
    \/ \E io_ok \in BOOLEAN : LaunchRead(io_ok)
    \/ \E io_ok \in BOOLEAN, success \in BOOLEAN : ReadExits(io_ok, success)
    \/ \E io_ok \in BOOLEAN : LaunchMinify(io_ok)
    \/ \E io_ok \in BOOLEAN, success \in BOOLEAN : MinifyExits(io_ok, success)
    \/ \E name \in ArtifactNames, at \in 1 .. Len(artifacts) + 1 : ChildWrites(name, at)

SpecMinify == MinInit /\ [][MinNext]_vars

\* C15: minification confirms the failure first.  For any initial content
\* of the artifacts folder, the first child runs `read` on the seed file; no
\* minify child is launched before that child has exited; and if it exits
\* with status zero the command fails without launching any minify child.
MinifyConfirmsSeedFirst ==
    /\ firstChild # None =>
          firstChild.command = "read" /\ firstChild.input_file = Seed
    /\ minPc \in {"start", "read"} => nMinify = 0
    /\ minResult = "panic" => nMinify = 0

\* a file name of the form <complexity>--<rest>: what precedes its first
\* "--" reads as a number
NamedByComplexity(name) ==
    LET at == FirstIndexOf(name, "--") IN
    /\ at > 1
    /\ parse_f64(SubSeq(name, 1, at - 1)).some
    /\ ~parse_f64(SubSeq(name, 1, at - 1)).v.nan

\* that number, in tenths
NameComplexity(name) ==
    parse_f64(SubSeq(name, 1, FirstIndexOf(name, "--") - 1)).v.tenths

\* C16: minification always works on the simplest artifact.  The input
\* file of every minify child is a file of the artifacts folder named
\* <complexity>--<rest> whose complexity is minimal among such files at that
\* moment; a file without "--" or whose prefix is not a number is never
\* selected; with no such file the file selected before is used again.
MinifyWorksOnSimplest ==
    (child # None /\ child.command = "minify") =>
        LET matching == {child.folder[i] : i \in
                            {j \in 1 .. Len(child.folder) :
                                NamedByComplexity(child.folder[j])}}
        IN  IF matching = {}
            THEN child.input_file = child.prev
            ELSE /\ child.input_file \in matching
                 /\ \A m \in matching :
                       NameComplexity(child.input_file) <= NameComplexity(m)

\* C18: the minify loop has no exit of its own.  The command never returns
\* Ok; once the read check has passed, it ends only with an I/O error from
\* launching or waiting for a child; after a minify child exits, with any
\* status and whether or not the simplest file has changed, the loop is
\* entered again and launches the next child.
MinifyLoopHasNoExit ==
    [][/\ minResult' # "Ok"
       /\ minPc' = "done" => minResult' \in {"Err", "panic"}
       /\ minResult' = "panic" => nMinify' = 0
       /\ minPc = "minify" /\ minPc' # "minify"
            => minPc' = "loop" \/ minResult' = "Err"
       /\ minPc = "loop" /\ minPc' # "loop"
            => \/ minResult' = "Err"
               \/ minPc' = "minify" /\ nMinify' = nMinify + 1]_vars

\* C18's case: a minify child given the same file as the one before has
\* exited and the loop is entered again
MinifyLoopReached ==
    /\ minPc = "loop"
    /\ nMinify = MaxChildren
    /\ child.command = "minify"
    /\ child.input_file = child.prev

----------------------------------------------------------------------------
(* CharWithinRangeMutator::new over ranges that meet the surrogates, and   *)
(* the arbitrary operations of the mutators it builds, one execution of a  *)
(* body per step (specifications SpecSurrogates and SpecRandom).           *)

\* std::ops::Bound<char>
Included(b) == [kind |-> "Included", b |-> b]
Excluded(b) == [kind |-> "Excluded", b |-> b]
Unbounded == [kind |-> "Unbounded"]

\* a u32 of new, as its two 16-bit limbs <<high, low>>
U32(n) == <<n \div Limb, n % Limb>>
U32_MIN == <<0, 0>>
U32_MAX == <<Limb - 1, Limb - 1>>

\* !x on u32
not_u32(x) == <<Limb - 1 - x[1], Limb - 1 - x[2]>>

\* x <= y on u32
le_u32(x, y) == x[1] < y[1] \/ (x[1] = y[1] /\ x[2] <= y[2])

\* u32::wrapping_sub
wrapping_sub(x, y) ==
    LET borrow == IF x[2] < y[2] THEN 1 ELSE 0 IN
    <<(x[1] + Limb - y[1] - borrow) % Limb, (x[2] + Limb - y[2]) % Limb>>

\* the integer a u32 below 2^31 stands for
u32_value(x) == x[1] * Limb + x[2]

\* CharWithinRangeMutator::new(range): [panic |-> TRUE], or the mutator built
CharWithinRangeMutator_new(start_bound, end_bound) ==
    LET start == CASE start_bound.kind = "Included" -> U32(start_bound.b)
                   [] start_bound.kind = "Excluded" -> U32(start_bound.b + 1)
                   [] start_bound.kind = "Unbounded" -> U32_MIN
        end == CASE end_bound.kind = "Included" -> U32(end_bound.b)
                 [] end_bound.kind = "Excluded" -> U32(end_bound.b - 1)
                 [] end_bound.kind = "Unbounded" -> U32_MAX
    IN  IF start_bound.kind = "Excluded" /\ U32(start_bound.b) = U32_MAX
        THEN [panic |-> TRUE]
        ELSE IF end_bound.kind = "Excluded" /\ U32(end_bound.b) = U32_MIN
        THEN [panic |-> TRUE]
        ELSE IF le_u32(not_u32(start), end)
        THEN [panic |-> TRUE]
        ELSE [panic |-> FALSE,
              self |-> [start_range |-> start,
                        len_range |-> wrapping_sub(end, start),
                        cplx |-> CharCplx]]

\* a mutator of new with its u32 fields as integers
CharFields(self) ==
    [start_range |-> u32_value(self.start_range),
     len_range |-> u32_value(self.len_range),
     cplx |-> self.cplx]

\* one execution of ordered_arbitrary's body: `again` when it calls itself
\* on the step it leaves behind
Char_ordered_arbitrary_body(self, step, max_cplx) ==
    IF max_cplx < Char_min_complexity(self)
    THEN [again |-> FALSE, ret |-> None, step |-> step]
    ELSE IF step > self.len_range
    THEN [again |-> FALSE, ret |-> None, step |-> step]
    ELSE LET result == binary_search_arbitrary_u32(0, self.len_range, step)
             step1 == step + 1
             c == wrapping_add(self.start_range, result)
         IN  IF IsChar(c)
             THEN [again |-> FALSE, ret |-> Some(<<c, self.cplx>>), step |-> step1]
             ELSE [again |-> TRUE, ret |-> None, step |-> step1 + 1]

\* the bounds of the ranges given to new: chars next to the surrogates,
\* included or excluded, and no bound at the end
StartBounds ==
    {Included(SurrogateFirst - m) : m \in 1 .. MaxMargin}
        \cup {Excluded(SurrogateFirst - m) : m \in 1 .. MaxMargin}
EndBounds ==
    {Included(SurrogateLast + m) : m \in 1 .. MaxMargin}
        \cup {Excluded(SurrogateLast + m) : m \in 1 .. MaxMargin}
        \cup {Unbounded}

\* the mutators new builds from them
SurMutators ==
    {CharFields(CharWithinRangeMutator_new(sb, eb).self) :
        <<sb, eb>> \in {r \in StartBounds \X EndBounds :
                           ~CharWithinRangeMutator_new(r[1], r[2]).panic}}

SurInit ==
    /\ mutator \in SurMutators
    /\ value = NoChar /\ cache = Unit /\ mstep = 0
    /\ astep = M_default_arbitrary_step(mutator)
    /\ arbStart = StepNo(mutator, astep)
    /\ pc = "idle"
    /\ token = NoChar
    /\ last = Result("init", 0, FALSE, NoChar, 0)
    /\ pre = [value |-> value, cache |-> cache]
    /\ arbSeq = <<>> /\ arbNone = NoCplx /\ mutOk = 0 /\ mutNone = NoCplx
    /\ FindIdle /\ SlabIdle /\ WiIdle /\ HbIdle /\ RestIdle

\* ordered_arbitrary(&mut astep, C) is called
OrderedArbitraryCall(C) ==
    /\ MutFrame
    /\ pc = "idle"
    /\ pc' = "ordered_arbitrary"
    /\ last' = Result("ordered_arbitrary_call", C, FALSE, NoChar, 0)
    /\ UNCHANGED <<mutator, value, cache, mstep, astep, token, pre,
                   arbStart, arbSeq, arbNone, mutOk, mutNone>>

\* one execution of ordered_arbitrary's body: it returns, or calls itself
\* with the step advanced
OrderedArbitraryBody ==
    /\ MutFrame
    /\ pc = "ordered_arbitrary"
    /\ LET r == Char_ordered_arbitrary_body(CharOf(mutator), StepNo(mutator, astep), last.C) IN
       /\ astep' = StepOf(mutator, r.step)
       /\ IF r.again
          THEN UNCHANGED <<pc, last, arbSeq, arbNone>>
          ELSE /\ pc' = "idle"
               /\ last' = IF r.ret.some
                          THEN Result("ordered_arbitrary", last.C, TRUE, r.ret.v[1], r.ret.v[2])
                          ELSE Result("ordered_arbitrary", last.C, FALSE, NoChar, 0)
               /\ arbSeq' = IF r.ret.some THEN Append(arbSeq, r.ret.v[1]) ELSE arbSeq
               /\ arbNone' = IF r.ret.some THEN arbNone ELSE Max(arbNone, last.C)
    /\ UNCHANGED <<mutator, value, cache, mstep, token, pre, arbStart, mutOk, mutNone>>

SurNext ==
    \/ \E C \in MaxCplxChoices : OrderedArbitraryCall(C)
    \/ OrderedArbitraryBody
    \/ ResetArbitraryStep

SpecSurrogates == SurInit /\ [][SurNext]_vars

\* C19: ordered_arbitrary skips only invalid code points.  When the code
\* point of the current step is a surrogate, that code point alone is
\* skipped and the enumeration goes on with the very next step; so, for a
\* range that holds surrogates, the calls made from default_arbitrary_step
\* until None is returned yield every valid char of the range exactly once.
OrderedArbitrarySkipsOnlyInvalid ==
    (/\ last.op = "ordered_arbitrary" /\ last.C >= CharCplx /\ ~last.some
     /\ arbStart = Char_default_arbitrary_step(CharOf(mutator))
     /\ CharsOf(mutator) # Char_rng_draws(CharOf(mutator))) =>
        /\ {arbSeq[i] : i \in 1 .. Len(arbSeq)} = CharsOf(mutator)
        /\ Len(arbSeq) = Cardinality(CharsOf(mutator))

\* the mutators of SpecRandom: those of new, alone or as a variant of Either
RandMutators ==
    SurMutators \cup {Left(m) : m \in SurMutators} \cup {Right(m) : m \in SurMutators}

RandInit ==
    /\ mutator \in RandMutators
    /\ value = NoChar /\ cache = Unit /\ mstep = 0
    /\ astep = M_default_arbitrary_step(mutator)
    /\ arbStart = StepNo(mutator, astep)
    /\ pc = "idle"
    /\ token = NoChar
    /\ last = Result("init", 0, FALSE, NoChar, 0)
    /\ pre = [value |-> value, cache |-> cache]
    /\ arbSeq = <<>> /\ arbNone = NoCplx /\ mutOk = 0 /\ mutNone = NoCplx
    /\ FindIdle /\ SlabIdle /\ WiIdle /\ HbIdle /\ RestIdle

\* an execution of random_arbitrary's body that draws a valid char and returns
RandomArbitraryReturns ==
    pc = "random_arbitrary" /\ pc' = "idle" /\ RandomArbitraryBody

RandNext ==
    \/ \E C \in MaxCplxChoices : RandomArbitraryCall(C)
    \/ RandomArbitraryBody

\* the sampler is fair: a draw that stays possible is made in the end, so a
\* call whose range holds a valid char does not resample forever
SpecRandom == RandInit /\ [][RandNext]_vars /\ WF_vars(RandomArbitraryReturns)

\* C17: random_arbitrary always succeeds.  For every mutator new accepts,
\* ranges given with excluded bounds included, a call of random_arbitrary
\* returns in the end, with a valid char of the range, under a fair sampler.
RandomArbitraryAlwaysSucceeds ==
    (pc = "random_arbitrary") ~>
        (/\ pc = "idle"
         /\ last.op = "random_arbitrary" /\ last.some
         /\ IsChar(last.val) /\ InRange(mutator, last.val))

----------------------------------------------------------------------------
(* CharWithinRangeMutator::new alone, over ranges in either order and with *)
(* every kind of bound (specification SpecNew).                            *)

\* the chars the bounds name
BoundChars ==
    (0 .. MaxBoundChar) \cup (97 .. 97 + MaxBoundChar)
        \cup (CharMax - MaxBoundChar .. CharMax)

Bounds ==
    {Included(b) : b \in BoundChars} \cup {Excluded(b) : b \in BoundChars}
        \cup {Unbounded}

NewFrame ==
    UNCHANGED <<mutVars, findVars, slabVars, wiVars, hbVars, grVars, senVars, minVars>>

NewInit ==
    /\ range \in Bounds \X Bounds
    /\ made = None
    /\ MutIdle /\ FindIdle /\ SlabIdle /\ WiIdle /\ HbIdle
    /\ GrIdle /\ SenIdle /\ MinIdle

\* CharWithinRangeMutator::new(range)
New ==
    /\ NewFrame
    /\ made = None
    /\ made' = Some(CharWithinRangeMutator_new(range[1], range[2]))
    /\ UNCHANGED range

NewNext == New

SpecNew == NewInit /\ [][NewNext]_vars

\* the first and the last code point of a range: a u32, or below zero for a
\* range that ends before '\0'
FirstCodePoint(start_bound) ==
    CASE start_bound.kind = "Included" -> U32(start_bound.b)
      [] start_bound.kind = "Excluded" -> U32(start_bound.b + 1)
      [] start_bound.kind = "Unbounded" -> U32_MIN

EndsBeforeZero(end_bound) == end_bound.kind = "Excluded" /\ end_bound.b = 0

LastCodePoint(end_bound) ==
    CASE end_bound.kind = "Included" -> U32(end_bound.b)
      [] end_bound.kind = "Excluded" -> U32(end_bound.b - 1)
      [] end_bound.kind = "Unbounded" -> U32_MAX

\* the range is inverted: its first code point is greater than its last
Inverted(r) ==
    \/ EndsBeforeZero(r[2])
    \/ ~EndsBeforeZero(r[2])
          /\ ~le_u32(FirstCodePoint(r[1]), LastCodePoint(r[2]))

\* C21: new rejects exactly the inverted ranges.  It panics if and only if
\* the first code point of the range is greater than the last; it accepts
\* every range with start <= end, unbounded below or above included, and
\* stores start_range = start and len_range = end - start for it.
NewRejectsExactlyInverted ==
    made # None =>
        /\ made.v.panic <=> Inverted(range)
        /\ ~made.v.panic =>
              /\ made.v.self.start_range = FirstCodePoint(range[1])
              /\ le_u32(made.v.self.start_range, LastCodePoint(range[2]))
              /\ wrapping_sub(LastCodePoint(range[2]), made.v.self.start_range)
                    = made.v.self.len_range
              /\ le_u32(made.v.self.len_range, LastCodePoint(range[2]))

====
